---- MODULE Spec2Model ----
(***************************************************************************)
(* ReactiveStore (src/reactive_store.js): a path-addressable value         *)
(* container whose reads register Tracker dependencies on dependency       *)
(* nodes and whose writes diff old against new values and invalidate the   *)
(* dependencies of the paths that changed.                                 *)
(*                                                                         *)
(* JavaScript values are references, so the value tree is a heap of        *)
(* objects.  A value is a pair <<kind, n>>: a primitive, a symbol, or a    *)
(* reference <<"ref", a>> to heap cell a.                                  *)
(***************************************************************************)
EXTENDS Integers, Sequences, FiniteSets, Bags, TLC

\* ------------------------------------------------------------------ bounds
NAddr == 10         \* heap cells
MaxOps == 2         \* top-level writes in one behaviour
MaxReads == 2       \* reactive reads in one behaviour
MaxNest == 1        \* writes a mutator performs on the store
MaxNoMut == 2       \* noMutation calls in progress at a time

\* ------------------------------------------------------------------ values
Addr == 1..NAddr
Keys == {"0", "a"}

Undefined == <<"undefined", 0>>
Null == <<"null", 0>>
Num(n) == <<"number", n>>
\* the number that is not equal to itself
NaN == <<"NaN", 0>>
\* reactive_store.js:41-50: the unique symbols
DELETE == <<"symbol", 1>>
CANCEL == <<"symbol", 2>>
\* the global Object constructor, handed to _registerChange for parents (line 397)
ObjectCtor == <<"function", 0>>
\* a function of the caller's (functions are compare values of equals only;
\* the stored values of the model hold none)
Fn(n) == <<"function", n>>
Ref(a) == <<"ref", a>>
\* no Tracker.Dependency: eqDepMap.get() found nothing / activeEqDep unset
NoDep == <<"nodep", 0>>

IsRef(v) == v[1] = "ref"
AddrOf(v) == v[2]
\* value instanceof Object: objects of every class, and functions
InstanceOfObject(v) == IsRef(v) \/ v[1] = "function"
\* a variant that takes null and undefined for equal, as == does
LooseEquals(v, w) == (v = w /\ v # NaN) \/ {v, w} \subseteq {Undefined, Null}
\* v === w: references by identity, primitives by value, NaN equal to nothing
StrictEquals(v, w) == v = w /\ v # NaN

\* A heap cell: its constructor (cat), the SHALLOW mark, a Date's time value and
\* its own enumerable properties (a function from a subset of Keys to values).
NoProps == [k \in {} |-> Undefined]
FreeCell == [cat |-> "free", shallow |-> FALSE, time |-> 0, props |-> NoProps]
EmptyObject == [cat |-> "Object", shallow |-> FALSE, time |-> 0, props |-> NoProps]
EmptyArray == [cat |-> "Array", shallow |-> FALSE, time |-> 0, props |-> NoProps]

\* helpers.js:3-5  isObject(val): val instanceof Object && val.constructor === Object
isObject(h, v) == IsRef(v) /\ h[AddrOf(v)].cat = "Object"

\* a variant that overlooks the SHALLOW mark
isTraversableMarked(h, v) ==
    /\ IsRef(v)
    /\ h[AddrOf(v)].cat \in {"Object", "Array"}
\* reactive_store.js:96-99  ReactiveStore.isTraversable(value)
isTraversable(h, v) ==
    /\ IsRef(v)
    /\ h[AddrOf(v)].cat \in {"Object", "Array"}
    /\ ~h[AddrOf(v)].shallow

\* value.propertyIsEnumerable(token): an own enumerable property
propertyIsEnumerable(h, v, k) == IsRef(v) /\ k \in DOMAIN h[AddrOf(v)].props

\* value[token] on a reference: the property, or undefined
PropOf(h, v, k) ==
    IF propertyIsEnumerable(h, v, k) THEN h[AddrOf(v)].props[k] ELSE Undefined

\* Object.keys(value): integer-like keys first, then string keys in insertion
\* order; with the key alphabet {"0", "a"} the order is fixed by the key set.
KeyOrder == <<"0", "a">>
SeqFilter(s, S) == SelectSeq(s, LAMBDA k : k \in S)
ObjectKeys(h, v) == SeqFilter(KeyOrder, DOMAIN h[AddrOf(v)].props)

\* ------------------------------------------------------------------- paths
\* A path is its token sequence (reactive_store.js:622-624: path.split('.'));
\* ReactiveStore.ROOT is the empty sequence.
ROOT == <<>>
MaxPathLen == 3
PathsOfLen(n) == [1..n -> Keys]
AllPaths == UNION {PathsOfLen(n) : n \in 0..MaxPathLen}
WritePaths == AllPaths \ {ROOT}
IsPrefix(p, q) == Len(p) <= Len(q) /\ SubSeq(q, 1, Len(p)) = p
Prefixes(p) == {SubSeq(p, 1, n) : n \in 0..Len(p)}

\* ------------------------------------------------------------------- state
VARIABLES
    data,           \* this.data: the root value
    heap,           \* the objects the values refer to
    trav,           \* this._isTraversable
    nodes,          \* the paths that have a DepNode (this[ROOT] and its subDeps)
    valDeps,        \* the paths whose DepNode has a dep (a get() dependency)
    eqDeps,         \* <<path, value>>: the entries of the DepNodes' eqDepMap
    active,         \* path -> the value whose eqDep is the node's activeEqDep
    opCount,        \* this._changeData.opCount
    pending,        \* this._changeData.deps
    noMutate,       \* this._noMutate
    mutators,       \* the paths whose pathData has a mutate function
    eqCheckMap,     \* ReactiveStore.eqCheckMap (static): constructor -> check
    stack,          \* the _watchChanges operations (stopped inside a mutator) and
                    \* the noMutation calls in progress, innermost first
    fired,          \* dep.changed() calls since the last top-level write began
    observer,       \* <<path, q, w>>: the computation that read get(path) calls
                    \* assign(q, w) when it is invalidated; <<>> when there is none
    last,           \* the last top-level write: what it was and the state before it
    step,           \* what the last step of the program did
    nOps, nReads    \* writes and reactive reads so far

vars == <<data, heap, trav, nodes, valDeps, eqDeps, active, opCount, pending,
          noMutate, mutators, eqCheckMap, stack, fired, observer, last, step, nOps,
          nReads>>

\* A Tracker.Dependency is named by the node and the map entry that holds it.
ValDep(p) == <<"val", p, Undefined>>
EqDep(p, v) == <<"eq", p, v>>

\* ------------------------------------------------------------------- heap
IsFree(h, a) == h[a].cat = "free"
FreeAddrs(h) == {a \in Addr : IsFree(h, a)}
\* new allocations take the lowest free cells
RECURSIVE NthFree(_, _)
NthFree(F, i) ==
    LET m == CHOOSE a \in F : \A b \in F : a <= b
    IN IF i = 1 THEN m ELSE NthFree(F \ {m}, i - 1)

\* the cells reachable from a value (what the JavaScript heap keeps alive)
RECURSIVE ReachFrom(_, _, _)
ReachFrom(h, todo, seen) ==
    IF todo = {} THEN seen
    ELSE LET a == CHOOSE x \in todo : TRUE
             kids == {AddrOf(h[a].props[k]) :
                        k \in {j \in DOMAIN h[a].props : IsRef(h[a].props[j])}}
         IN ReachFrom(h, (todo \cup kids) \ (seen \cup {a}), seen \cup {a})
Reach(h, v) == IF IsRef(v) THEN ReachFrom(h, {AddrOf(v)}, {}) ELSE {}
\* cells nothing refers to any more are reclaimed
Collect(h, roots) == [a \in Addr |-> IF a \in roots THEN h[a] ELSE FreeCell]

\* README.md 16-17: the store keeps the references it is given, so one object
\* can sit under several paths.  The value v is tree-shaped when every object
\* reachable from it is referred to once.
RefsTo(h, R, a) ==
    Cardinality({bk \in R \X Keys :
                    /\ bk[2] \in DOMAIN h[bk[1]].props
                    /\ h[bk[1]].props[bk[2]] = Ref(a)})
TreeShaped(h, v) ==
    \A a \in Reach(h, v) :
        RefsTo(h, Reach(h, v), a) + (IF v = Ref(a) THEN 1 ELSE 0) = 1

\* ------------------------------------------------------------ comparison
\* The keys of a cell that get() can tell from absent ones: README.md 52 and
\* the note at reactive_store.js 544 treat a key holding undefined as absent.
DefinedKeys(c) == {k \in DOMAIN c.props : c.props[k] # Undefined}
\* Equality of value v1 in heap h1 and v2 in heap h2: primitives by identity,
\* objects by category, marks, keys and nested contents (pairs under
\* comparison are assumed equal, so that cyclic values compare).  With strict
\* the key sets must be the same; without it only the defined keys.
RECURSIVE SameValue(_, _, _, _, _, _)
SameValue(h1, v1, h2, v2, strict, assumed) ==
    IF ~IsRef(v1) \/ ~IsRef(v2) THEN v1 = v2
    ELSE IF <<v1, v2>> \in assumed THEN TRUE
    ELSE LET c1 == h1[AddrOf(v1)]
             c2 == h2[AddrOf(v2)]
         IN /\ c1.cat = c2.cat /\ c1.shallow = c2.shallow /\ c1.time = c2.time
            /\ IF strict THEN DOMAIN c1.props = DOMAIN c2.props
                         ELSE DefinedKeys(c1) = DefinedKeys(c2)
            /\ \A k \in DOMAIN c1.props \cap DOMAIN c2.props :
                   SameValue(h1, c1.props[k], h2, c2.props[k], strict,
                             assumed \cup {<<v1, v2>>})

\* ------------------------------------------------------------------- reads
\* a variant that reads properties of anything that has them
RECURSIVE FindValueAnyObject(_, _, _)
FindValueAnyObject(h, value, tokens) ==
    IF tokens = <<>> THEN value
    ELSE IF value = Undefined THEN Undefined
    ELSE IF propertyIsEnumerable(h, value, Head(tokens))
         THEN FindValueAnyObject(h, PropOf(h, value, Head(tokens)), Tail(tokens))
         ELSE Undefined
\* reactive_store.js:636-662  _findProperty(path): the value half
RECURSIVE FindValue(_, _, _)
FindValue(h, value, tokens) ==
    IF tokens = <<>> THEN value
    ELSE IF value = Undefined THEN Undefined
    ELSE IF isTraversable(h, value) /\ propertyIsEnumerable(h, value, Head(tokens))
         THEN FindValue(h, PropOf(h, value, Head(tokens)), Tail(tokens))
         ELSE Undefined

\* reactive_store.js:116-129  get(path): the value returned
Get(path) == FindValue(heap, data, path)
\* reactive_store.js:161-163  equals(path, value): the verdict returned
EqualsVerdict(path, w) == StrictEquals(FindValue(heap, data, path), w)

\* --------------------------------------------------------- dependency tree
\* "no DepNode" where the code has undefined / null
NoNode == <<"none">>
\* deps[key] for deps the subDeps of node dn (or null)
SubNode(dn, k) ==
    IF dn \in nodes /\ Append(dn, k) \in nodes THEN Append(dn, k) ELSE NoNode
\* Object.keys(depNode.subDeps)
SubDepKeys(dn) == SeqFilter(KeyOrder, {k \in Keys : Append(dn, k) \in nodes})
HasEqDepMap(p) == \E e \in eqDeps : e[1] = p
\* depNode.eqDepMap.get(value)
EqDepMapGet(p, v) == IF <<p, v>> \in eqDeps THEN v ELSE NoDep

\* The change accumulator acc: [pending |-> _changeData.deps, active |-> the
\* nodes' activeEqDep].

\* reactive_store.js:431-451  _registerChange(depNode, newValue)
RegisterChange(acc, dn, newValue) ==
    IF dn \notin nodes THEN acc
    ELSE LET p1 == IF dn \in valDeps THEN acc.pending \cup {ValDep(dn)}
                   ELSE acc.pending
             eqDep == EqDepMapGet(dn, newValue)
             activeEqDep == acc.active[dn]
         IN IF HasEqDepMap(dn) /\ eqDep # activeEqDep
            THEN [pending |-> p1
                        \cup (IF eqDep # NoDep THEN {EqDep(dn, eqDep)} ELSE {})
                        \cup (IF activeEqDep # NoDep THEN {EqDep(dn, activeEqDep)} ELSE {}),
                  active |-> [acc.active EXCEPT ![dn] = eqDep]]
            ELSE [pending |-> p1, active |-> acc.active]

\* reactive_store.js:461-486  _triggerAllDeps(deps, keyFilter, curValue, seen);
\* deps are the subDeps of node dn.  Returns [acc, seen].
RECURSIVE TriggerAllDeps(_, _, _, _, _, _)
RECURSIVE TriggerAllDepsKeys(_, _, _, _, _, _, _)
RECURSIVE TriggerAllDepsKey(_, _, _, _, _, _, _)
RECURSIVE TriggerAllDepsRest(_, _, _, _, _, _)
TriggerAllDeps(h, acc, dn, keyFilter, curValue, seen) ==
    IF dn \in nodes /\ isTraversable(h, keyFilter) /\ keyFilter \notin seen
    THEN TriggerAllDepsKeys(h, acc, dn, keyFilter, curValue,
                            seen \cup {keyFilter}, SubDepKeys(dn))
    ELSE [acc |-> acc, seen |-> seen]

\* reactive_store.js:474-476: curValue[key], or undefined
CurValueAtKey(h, curValue, key) ==
    IF isTraversable(h, curValue) /\ propertyIsEnumerable(h, curValue, key)
    THEN PropOf(h, curValue, key) ELSE Undefined

\* reactive_store.js:478-482: one key of deps, curValueAtKey computed
TriggerAllDepsKey(h, acc, dn, keyFilter, curValueAtKey, seen, key) ==
    IF propertyIsEnumerable(h, keyFilter, key)
    THEN TriggerAllDeps(h, RegisterChange(acc, Append(dn, key), curValueAtKey),
                        Append(dn, key), PropOf(h, keyFilter, key), curValueAtKey, seen)
    ELSE [acc |-> RegisterChange(acc, Append(dn, key), curValueAtKey), seen |-> seen]

\* reactive_store.js:473-483: the loop over Object.keys(deps)
TriggerAllDepsKeys(h, acc, dn, keyFilter, curValue, seen, ks) ==
    IF ks = <<>> THEN [acc |-> acc, seen |-> seen]
    ELSE TriggerAllDepsRest(
             h, dn, keyFilter, curValue, Tail(ks),
             TriggerAllDepsKey(h, acc, dn, keyFilter,
                               CurValueAtKey(h, curValue, Head(ks)), seen, Head(ks)))
\* the loop goes on after a key with result r
TriggerAllDepsRest(h, dn, keyFilter, curValue, ks, r) ==
    TriggerAllDepsKeys(h, r.acc, dn, keyFilter, curValue, r.seen, ks)

\* The constructors of the values the store does not traverse, and the checks
\* registered for them: the check ReactiveStore comes with for Date, and a
\* caller's check (oldValue, newValue) => true.
Ctors == {"Date", "Object", "Array"}
NoCheck == "none"
DateCheck == "date"
AnyCheck == "any"
\* reactive_store.js:53-75  eqCheckMap as the class is loaded (Set and RegExp
\* values are not among the model's values)
DefaultChecks == [c \in Ctors |-> IF c = "Date" THEN DateCheck ELSE NoCheck]
\* reactive_store.js:57-62: the Date check
DateIsEqual(h, old, new) ==
    /\ IsRef(new) /\ h[AddrOf(new)].cat = "Date"
    /\ h[AddrOf(old)].time = h[AddrOf(new)].time
\* isEqual(oldValue, newValue)
IsEqualBy(check, h, old, new) ==
    CASE check = DateCheck -> DateIsEqual(h, old, new)
      [] check = AnyCheck -> TRUE
      [] OTHER -> FALSE
\* a variant that looks up the check of the new value's constructor
CustomIsEqualOfNew(h, old, new) ==
    /\ IsRef(new)
    /\ IsEqualBy(eqCheckMap[h[AddrOf(new)].cat], h, old, new)
\* reactive_store.js:584-588: isEqual && isEqual(oldValue, newValue)
CustomIsEqual(h, old, new) ==
    IsEqualBy(eqCheckMap[h[AddrOf(old)].cat], h, old, new)

\* reactive_store.js:538-553: fold the new value's keys into keySet.
\* Returns [changed, keys]; the break ends the fold early.
RECURSIVE AddNewKeys(_, _, _, _, _, _)
AddNewKeys(h, newValue, ks, changed, keySeq, hasSubDeps) ==
    IF ks = <<>> THEN [changed |-> changed, keys |-> keySeq]
    ELSE LET key == Head(ks)
             inSet == \E i \in 1..Len(keySeq) : keySeq[i] = key
             hit == ~changed /\ PropOf(h, newValue, key) # Undefined
         IN IF inSet
            THEN AddNewKeys(h, newValue, Tail(ks), changed, keySeq, hasSubDeps)
            ELSE IF hit /\ ~hasSubDeps
                 THEN [changed |-> TRUE, keys |-> keySeq]
                 ELSE AddNewKeys(h, newValue, Tail(ks), changed \/ hit,
                                 Append(keySeq, key), hasSubDeps)

\* reactive_store.js:497-606  _triggerChangedDeps(depNode, oldValue, newValue, seen)
\* Returns [changed, acc, seen].
RECURSIVE TriggerChangedDeps(_, _, _, _, _, _)
RECURSIVE Verdict(_, _, _, _, _, _)
RECURSIVE Traverse(_, _, _, _, _, _, _)
RECURSIVE TriggerChangedKeys(_, _, _, _, _, _, _, _)
RECURSIVE TriggerChangedKey(_, _, _, _, _, _, _, _)
RECURSIVE TriggerChangedRest(_, _, _, _, _, _, _)

\* what a branch of the diff leaves: the verdict, whether newValue was
\* traversed, and what was registered
Outcome(changed, traversed, acc, seen) ==
    [changed |-> changed, traversed |-> traversed, acc |-> acc, seen |-> seen]

\* reactive_store.js:534: the constructors or the numbers of keys differ
DefinitelyChanged(h, oldValue, newValue) ==
    \/ h[AddrOf(oldValue)].cat # h[AddrOf(newValue)].cat
    \/ Len(ObjectKeys(h, oldValue)) # Len(ObjectKeys(h, newValue))

\* reactive_store.js:523-561: the verdict so far and the keys to visit
ScanKeys(h, oldValue, newValue, hasSubDeps, changed0) ==
    IF isTraversable(h, newValue) /\ (~changed0 \/ hasSubDeps)
    THEN AddNewKeys(h, newValue, ObjectKeys(h, newValue), changed0,
                    ObjectKeys(h, oldValue), hasSubDeps)
    ELSE [changed |-> changed0, keys |-> ObjectKeys(h, oldValue)]

\* reactive_store.js:521-579: oldValue is traversable and not seen before;
\* seen1 has oldValue (and newValue) added, scan is the result of ScanKeys
Traverse(h, acc, dn, oldValue, newValue, seen1, scan) ==
    IF ~scan.changed \/ dn \in nodes
    THEN TriggerChangedKeys(h, acc, dn, oldValue, newValue, seen1,
                            scan.changed, scan.keys)
    ELSE [changed |-> scan.changed, acc |-> acc, seen |-> seen1]

\* a traversal's result d as an outcome
Traversed(d, newValueIsTraversable) ==
    Outcome(d.changed, newValueIsTraversable, d.acc, d.seen)

\* a variant that takes a value written over itself for unchanged
SameReferenceUnchanged(acc, seen) == Outcome(FALSE, FALSE, acc, seen)
\* reactive_store.js:505-507: oldValue and newValue are the same reference,
\* which cannot be compared with itself: assume changed
SameReference(acc, seen) == Outcome(TRUE, FALSE, acc, seen)
\* a variant that takes a value met again for unchanged
SeenBeforeUnchanged(acc, seen) == Outcome(FALSE, FALSE, acc, seen)
\* reactive_store.js:515-517: oldValue or newValue has been seen once, the
\* data is cyclical: assume changed
SeenBefore(acc, seen) == Outcome(TRUE, FALSE, acc, seen)

\* a variant that compares with ==
PrimitiveChangedLoosely(oldValue, newValue) == ~LooseEquals(oldValue, newValue)
\* reactive_store.js:591-594: oldValue is primitive or null
PrimitiveChanged(oldValue, newValue) == ~StrictEquals(oldValue, newValue)

\* reactive_store.js:503-594: the branches on oldValue
Verdict(h, acc, dn, oldValue, newValue, seen) ==
    IF ~IsRef(oldValue)
    THEN Outcome(PrimitiveChanged(oldValue, newValue), FALSE, acc, seen)
    ELSE IF oldValue = newValue THEN SameReference(acc, seen)
    ELSE IF ~isTraversable(h, oldValue)
    THEN Outcome(~CustomIsEqual(h, oldValue, newValue), FALSE, acc, seen)
    ELSE IF oldValue \in seen \/ newValue \in seen THEN SeenBefore(acc, seen)
    ELSE Traversed(
             Traverse(h, acc, dn, oldValue, newValue,
                      IF isTraversable(h, newValue) THEN seen \cup {oldValue, newValue}
                      ELSE seen \cup {oldValue},
                      ScanKeys(h, oldValue, newValue, dn \in nodes,
                               IF isTraversable(h, newValue)
                               THEN DefinitelyChanged(h, oldValue, newValue)
                               ELSE TRUE)),
             isTraversable(h, newValue))

\* reactive_store.js:601-605: register the node when changed; acc2 is what has
\* been registered up to here
Conclude(res, dn, newValue, acc2) ==
    [changed |-> res.changed,
     acc |-> IF res.changed THEN RegisterChange(acc2, dn, newValue) ELSE acc2,
     seen |-> res.seen]

\* reactive_store.js:596-605: sweep the sub-dependencies when newValue was not
\* traversed, then conclude
Sweep(h, dn, newValue, res) ==
    Conclude(res, dn, newValue,
             IF ~res.traversed
             THEN TriggerAllDeps(h, res.acc, dn, newValue, newValue, {}).acc
             ELSE res.acc)

TriggerChangedDeps(h, acc, dn, oldValue, newValue, seen) ==
    Sweep(h, dn, newValue, Verdict(h, acc, dn, oldValue, newValue, seen))

\* reactive_store.js:567-572: one key of keySet
TriggerChangedKey(h, acc, dn, oldValue, newValue, seen, changed, key) ==
    IF ~changed \/ SubNode(dn, key) # NoNode
    THEN TriggerChangedDeps(h, acc, SubNode(dn, key), PropOf(h, oldValue, key),
                            IF isTraversable(h, newValue)
                            THEN PropOf(h, newValue, key) ELSE Undefined,
                            seen)
    ELSE [changed |-> FALSE, acc |-> acc, seen |-> seen]

\* reactive_store.js:566-578: the loop over keySet
TriggerChangedKeys(h, acc, dn, oldValue, newValue, seen, changed, ks) ==
    IF ks = <<>> THEN [changed |-> changed, acc |-> acc, seen |-> seen]
    ELSE TriggerChangedRest(
             h, dn, oldValue, newValue, changed, Tail(ks),
             TriggerChangedKey(h, acc, dn, oldValue, newValue, seen, changed, Head(ks)))
\* reactive_store.js:574-576: the loop goes on after a key with result r
TriggerChangedRest(h, dn, oldValue, newValue, changed, ks, r) ==
    TriggerChangedKeys(h, r.acc, dn, oldValue, newValue, r.seen,
                       changed \/ r.changed, ks)

\* ------------------------------------------------------------------ writes
\* The fields a write changes, as one record:
\* st = [data, heap, trav, active, pending, fired].
Store == [data |-> data, heap |-> heap, trav |-> trav, active |-> active,
          pending |-> pending, fired |-> fired, observer |-> observer]
AccOf(st) == [pending |-> st.pending, active |-> st.active]
WithAcc(st, acc) == [st EXCEPT !.pending = acc.pending, !.active = acc.active]

NoObserver == <<>>
\* reactive_store.js:417-421: every pending dep is changed() and the set is
\* replaced
Flush(st) == [st EXCEPT !.fired = @ (+) SetToBag(st.pending), !.pending = {}]

\* a variant that leaves the written key alone in its container
PutPropOnly(props, k, v) == [j \in {k} |-> v]
PutProp(props, k, v) == [j \in DOMAIN props \cup {k} |-> IF j = k THEN v ELSE props[j]]
\* a variant that takes the other keys along
DelPropAll(props, k) == NoProps
DelProp(props, k) == [j \in DOMAIN props \ {k} |-> props[j]]

\* reactive_store.js:394-399: register every parent dep node that was hit
RECURSIVE RegisterParents(_, _)
RegisterParents(acc, parentDepNodes) ==
    IF parentDepNodes = <<>> THEN acc
    ELSE RegisterParents(RegisterChange(acc, Head(parentDepNodes), ObjectCtor),
                         Tail(parentDepNodes))

\* reactive_store.js:376-384: delete search[token] and trigger the dep at
\* token and its sub-deps; returns what is registered
UnsetToken(st, search, token, depNode, oldValue) ==
    IF depNode # NoNode
    THEN RegisterChange(
             TriggerAllDeps([st.heap EXCEPT ![search].props = DelProp(@, token)],
                            AccOf(st), depNode, oldValue, Undefined, {}).acc,
             depNode, Undefined)
    ELSE AccOf(st)

\* a variant of the diff that takes every write for a change
SetTokenAlways(h1, acc, depNode, oldValue, value) ==
    [changed |-> TRUE, acc |-> RegisterChange(acc, depNode, value), seen |-> {}]
\* reactive_store.js:388-391: search[token] = value and the diff; returns
\* [changed, acc, seen]
SetToken(h1, acc, depNode, oldValue, value) ==
    TriggerChangedDeps(h1, acc, depNode, oldValue, value, {})

\* reactive_store.js:394-399: the parents are registered when changed
AfterDiff(st, parentDepNodes, diff) ==
    WithAcc(st, IF diff.changed THEN RegisterParents(diff.acc, parentDepNodes)
                ELSE diff.acc)

\* a variant that unsets a key whether the container has it or not
SetLastTokenUnguarded(st, search, token, depNode, parentDepNodes, unset, value) ==
    IF unset
    THEN WithAcc([st EXCEPT !.heap[search].props = DelProp(@, token)],
                 RegisterParents(
                     UnsetToken(st, search, token, depNode,
                                PropOf(st.heap, Ref(search), token)),
                     parentDepNodes))
    ELSE AfterDiff([st EXCEPT !.heap[search].props = PutProp(@, token, value)],
                   parentDepNodes,
                   SetToken([st.heap EXCEPT ![search].props = PutProp(@, token, value)],
                            AccOf(st), depNode, PropOf(st.heap, Ref(search), token),
                            value))
\* reactive_store.js:369-400: the last token: set or unset search[token];
\* depNode is deps && deps[token]
SetLastToken(st, search, token, depNode, parentDepNodes, unset, value) ==
    IF unset
    THEN IF ~propertyIsEnumerable(st.heap, Ref(search), token) THEN st
         ELSE WithAcc([st EXCEPT !.heap[search].props = DelProp(@, token)],
                      RegisterParents(
                          UnsetToken(st, search, token, depNode,
                                     PropOf(st.heap, Ref(search), token)),
                          parentDepNodes))
    ELSE AfterDiff([st EXCEPT !.heap[search].props = PutProp(@, token, value)],
                   parentDepNodes,
                   SetToken([st.heap EXCEPT ![search].props = PutProp(@, token, value)],
                            AccOf(st), depNode, PropOf(st.heap, Ref(search), token),
                            value))

\* a variant that makes a sequence for an index token
NewSegmentByToken(nextToken) == IF nextToken = "0" THEN EmptyArray ELSE EmptyObject
\* reactive_store.js:352: the object put at a parent token that is not
\* traversable, whatever the token that follows
NewSegment(nextToken) == EmptyObject

\* reactive_store.js:343-401: the loop over the tokens
RECURSIVE WalkTokens(_, _, _, _, _, _, _)
WalkTokens(st, tokens, search, deps, parentDepNodes, unset, value) ==
    LET token == Head(tokens)
        cur == PropOf(st.heap, Ref(search), token)
        ok == isTraversable(st.heap, cur)
        fresh == NthFree(FreeAddrs(st.heap), 1)
        \* line 352: search[token] = {}
        h1 == IF ok THEN st.heap
              ELSE [st.heap EXCEPT ![fresh] = NewSegment(Head(Tail(tokens))),
                                   ![search].props = PutProp(@, token, Ref(fresh))]
        next == IF ok THEN AddrOf(cur) ELSE fresh
        depNode == IF deps # NoNode THEN SubNode(deps, token) ELSE NoNode
    IN IF Len(tokens) = 1
       THEN SetLastToken(st, search, token, depNode, parentDepNodes, unset, value)
       ELSE IF ~ok /\ unset THEN st
       ELSE WalkTokens([st EXCEPT !.heap = h1], Tail(tokens), next, depNode,
                       IF depNode # NoNode THEN Append(parentDepNodes, depNode)
                       ELSE parentDepNodes,
                       unset, value)

\* a variant that coerces the root before it looks at the value
SetAtPathCoerceFirst(st, tokens, value) ==
    LET unset == (value = DELETE)
        fresh == NthFree(FreeAddrs(st.heap), 1)
        st1 == IF st.trav \/ unset THEN st
               ELSE [st EXCEPT !.trav = TRUE, !.data = Ref(fresh),
                               !.heap = [@ EXCEPT ![fresh] = EmptyObject]]
    IN IF value = CANCEL THEN st1
       ELSE IF ~st.trav /\ unset THEN st
       ELSE WalkTokens(st1, tokens, AddrOf(st1.data), ROOT, <<ROOT>>, unset, value)

\* a variant that coerces the root for an unset as well
SetAtPathUnsetCoerces(st, tokens, value) ==
    LET unset == (value = DELETE)
        fresh == NthFree(FreeAddrs(st.heap), 1)
        st1 == IF st.trav THEN st
               ELSE [st EXCEPT !.trav = TRUE, !.data = Ref(fresh),
                               !.heap = [@ EXCEPT ![fresh] = EmptyObject]]
    IN IF value = CANCEL THEN st
       ELSE WalkTokens(st1, tokens, AddrOf(st1.data), ROOT, <<ROOT>>, unset, value)

\* a variant that leaves a root that is not traversable alone
SetAtPathKeepsRoot(st, tokens, value) ==
    IF value = CANCEL \/ ~st.trav THEN st
    ELSE WalkTokens(st, tokens, AddrOf(st.data), ROOT, <<ROOT>>, value = DELETE, value)

\* reactive_store.js:320-402  _setAtPath(path, value) after the mutator has run
SetAtPathAfterMutate(st, tokens, value) ==
    LET unset == (value = DELETE)
        fresh == NthFree(FreeAddrs(st.heap), 1)
        \* lines 327-333: coerce the root to an Object
        st1 == IF st.trav THEN st
               ELSE [st EXCEPT !.trav = TRUE, !.data = Ref(fresh),
                               !.heap = [@ EXCEPT ![fresh] = EmptyObject]]
    IN IF value = CANCEL THEN st
       ELSE IF ~st.trav /\ unset THEN st
       ELSE WalkTokens(st1, tokens, AddrOf(st1.data), ROOT, <<ROOT>>, unset, value)

\* a variant in which the mutator of a path runs for the paths below it too
MutatesBelow(path) == ~noMutate /\ \E m \in mutators : IsPrefix(m, path)
\* reactive_store.js:316: a mutator runs for this path
Mutates(path) == ~noMutate /\ path \in mutators

\* reactive_store.js:221-223 / 236-238: the loop over the entries <<path, value>>,
\* up to the first entry whose mutator has to be called.  Returns [st, todo].
\* a variant that assigns the first entry of the map and drops the others
RunEntriesFirstOnly(st, todo) ==
    IF todo = <<>> \/ Mutates(Head(todo)[1]) THEN [st |-> st, todo |-> todo]
    ELSE [st |-> SetAtPathAfterMutate(st, Head(todo)[1], Head(todo)[2]),
          todo |-> <<>>]
\* a variant that flushes after every entry
RECURSIVE RunEntriesFlushEach(_, _)
RunEntriesFlushEach(st, todo) ==
    IF todo = <<>> \/ Mutates(Head(todo)[1]) THEN [st |-> st, todo |-> todo]
    ELSE RunEntriesFlushEach(
             Flush(SetAtPathAfterMutate(st, Head(todo)[1], Head(todo)[2])), Tail(todo))
RECURSIVE RunEntries(_, _)
RunEntries(st, todo) ==
    IF todo = <<>> \/ Mutates(Head(todo)[1]) THEN [st |-> st, todo |-> todo]
    ELSE RunEntries(SetAtPathAfterMutate(st, Head(todo)[1], Head(todo)[2]), Tail(todo))

\* a variant that keeps the old root when the diff reports no change
SetRootIfChanged(st, value) ==
    LET r == TriggerChangedDeps(st.heap, AccOf(st), ROOT, st.data, value, {})
    IN IF r.changed
       THEN WithAcc([st EXCEPT !.trav = isTraversable(st.heap, value), !.data = value],
                    r.acc)
       ELSE WithAcc(st, r.acc)

\* a variant that stores the value and leaves the flag as it was
SetRootKeepsFlag(st, value) ==
    LET r == TriggerChangedDeps(st.heap, AccOf(st), ROOT, st.data, value, {})
    IN WithAcc([st EXCEPT !.data = value], r.acc)

\* reactive_store.js:195-202  set(value): the assignments and the diff
SetRoot(st, value) ==
    LET r == TriggerChangedDeps(st.heap, AccOf(st), ROOT, st.data, value, {})
    IN WithAcc([st EXCEPT !.trav = isTraversable(st.heap, value), !.data = value],
               r.acc)

\* ------------------------------------------------------------------ inputs
\* The values a caller builds: each use allocates new objects.  A template is
\* the sequence of its cells, <<"rel", i>> referring to the i-th of them; the
\* value is the first cell.
Obj(props) == [cat |-> "Object", shallow |-> FALSE, time |-> 0, props |-> props]
Template(t) ==
    CASE t = "empty" -> <<EmptyObject>>
      [] t = "one" -> <<Obj([k \in {"0"} |-> Num(1)])>>
      [] t = "undef" -> <<Obj([k \in {"a"} |-> Undefined])>>
      [] t = "undef0" -> <<Obj([k \in {"0"} |-> Undefined])>>
      [] t = "nest" -> <<Obj([k \in {"a"} |-> <<"rel", 2>>]),
                         Obj([k \in {"0"} |-> Num(1)])>>
      [] t = "array" -> <<[EmptyArray EXCEPT !.props = [k \in {"0"} |-> Num(1)]]>>
      [] t = "date" -> <<[cat |-> "Date", shallow |-> FALSE, time |-> 1,
                          props |-> NoProps]>>
      \* a Date of another time
      [] t = "date2" -> <<[cat |-> "Date", shallow |-> FALSE, time |-> 2,
                           props |-> NoProps]>>
      \* ReactiveStore.shallow({a: 1}), reactive_store.js:102-108
      [] t = "shallow" -> <<[Obj([k \in {"a"} |-> Num(1)]) EXCEPT !.shallow = TRUE]>>
      \* ReactiveStore.shallow([1])
      [] t = "shallowArray" ->
            <<[EmptyArray EXCEPT !.props = [k \in {"0"} |-> Num(1)], !.shallow = TRUE]>>
      \* an object that contains itself
      [] t = "cyclic" -> <<Obj([k \in {"a"} |-> <<"rel", 1>>])>>
      \* two objects that contain each other
      [] t = "cyclic2" -> <<Obj([k \in {"a"} |-> <<"rel", 2>>]),
                            Obj([k \in {"a"} |-> <<"rel", 1>>])>>
      \* a sequence that contains itself
      [] t = "cyclicArray" -> <<[EmptyArray EXCEPT !.props = [k \in {"0"} |-> <<"rel", 1>>]]>>
      \* one object under two keys
      [] t = "shared" -> <<Obj([k \in Keys |-> <<"rel", 2>>]),
                           Obj([k \in {"a"} |-> Num(1)])>>
      \* the same under key a
      [] t = "deep" -> <<Obj([k \in {"a"} |-> <<"rel", 2>>]),
                         Obj([k \in Keys |-> <<"rel", 3>>]),
                         Obj([k \in {"a"} |-> Num(1)])>>

Instantiate(h, t) ==
    LET cells == Template(t)
        F == FreeAddrs(h)
        at(i) == NthFree(F, i)
        fix(v) == IF v[1] = "rel" THEN Ref(at(v[2])) ELSE v
        cell(i) == [cells[i] EXCEPT !.props = [k \in DOMAIN @ |-> fix(@[k])]]
        new == {at(i) : i \in 1..Len(cells)}
        idx(a) == CHOOSE i \in 1..Len(cells) : at(i) = a
    IN [heap |-> [a \in Addr |-> IF a \in new THEN cell(idx(a)) ELSE h[a]],
        val |-> Ref(at(1))]

\* A value a caller passes: <<"prim", v>>, <<"fresh", template>>, <<"alias", path>>
\* (the reference get(path) returns) or <<"arg", 0>> (a mutator returning the
\* value it was given).  Returns [heap, val].
Resolve(st, spec, arg) ==
    CASE spec[1] = "prim" -> [heap |-> st.heap, val |-> spec[2]]
      [] spec[1] = "fresh" -> Instantiate(st.heap, spec[2])
      [] spec[1] = "alias" -> [heap |-> st.heap,
                               val |-> FindValue(st.heap, st.data, spec[2])]
      [] spec[1] = "arg" -> [heap |-> st.heap, val |-> arg]

\* the cells a value passed allocates (none for a value already built)
CellsNeeded(spec) == IF spec[1] = "fresh" THEN Len(Template(spec[2])) ELSE 0
\* an alias needs an object to refer to
Usable(st, spec) == spec[1] = "alias" => IsRef(FindValue(st.heap, st.data, spec[2]))
\* the cells the entries <<path, spec>> can allocate: the values passed, an
\* object for each parent token (line 352) and one for the root (line 332)
RECURSIVE CellsFor(_)
CellsFor(specs) ==
    IF specs = <<>> THEN 1
    ELSE CellsNeeded(Head(specs)[2]) + Len(Head(specs)[1]) - 1 + CellsFor(Tail(specs))

\* the entries <<path, spec>> of an assign, resolved in order: [heap, entries]
RECURSIVE ResolveEntries(_, _, _)
ResolveEntries(st, specs, done) ==
    IF specs = <<>> THEN [heap |-> st.heap, entries |-> done]
    ELSE LET r == Resolve(st, Head(specs)[2], Undefined)
         IN ResolveEntries([st EXCEPT !.heap = r.heap], Tail(specs),
                           Append(done, <<Head(specs)[1], r.val>>))

\* ----------------------------------------------------------------- actions
AtTop == stack = <<>>
\* a write may start: from the caller, or from inside the running mutator
MayWrite == IF AtTop THEN nOps < MaxOps ELSE last.nest < MaxNest
FreeFor(st, n) == Cardinality(FreeAddrs(st.heap)) >= n

Snapshot == [data |-> data, heap |-> heap, trav |-> trav, active |-> active,
             valDeps |-> valDeps, observer |-> observer]

\* what is remembered of the write before the last one, when the last one
\* repeats it (same operation, same paths, same values, same subscriptions):
\* what it invalidated and whether it changed the value at its first path
NoPrev == [again |-> FALSE, fired |-> EmptyBag, changed |-> FALSE]
Repeats(kind, entries) ==
    last.kind = kind /\ last.entries = entries /\ last.pre.valDeps = valDeps
LastChanged ==
    LET p == last.entries[1][1]
    IN ~SameValue(last.pre.heap, FindValue(last.pre.heap, last.pre.data, p),
                  heap, FindValue(heap, data, p), FALSE, {})

\* a variant in which a write creates the dep nodes along its first path
BeginEnsuresNodes(kind, entries) ==
    /\ MayWrite
    /\ last' = IF AtTop
               THEN [kind |-> kind, entries |-> entries, pre |-> Snapshot, nest |-> 0,
                     prev |-> IF Repeats(kind, entries)
                              THEN [again |-> TRUE, fired |-> fired,
                                    changed |-> LastChanged]
                              ELSE NoPrev]
               ELSE [last EXCEPT !.nest = @ + 1]
    /\ nOps' = IF AtTop THEN nOps + 1 ELSE nOps
    /\ nodes' = nodes \cup Prefixes(entries[1][1])
    /\ UNCHANGED <<valDeps, eqDeps, noMutate, mutators, eqCheckMap, nReads>>
\* bookkeeping at the start of a write
Begin(kind, entries) ==
    /\ MayWrite
    /\ last' = IF AtTop
               THEN [kind |-> kind, entries |-> entries, pre |-> Snapshot, nest |-> 0,
                     prev |-> IF Repeats(kind, entries)
                              THEN [again |-> TRUE, fired |-> fired,
                                    changed |-> LastChanged]
                              ELSE NoPrev]
               ELSE [last EXCEPT !.nest = @ + 1]
    /\ nOps' = IF AtTop THEN nOps + 1 ELSE nOps
    /\ UNCHANGED <<nodes, valDeps, eqDeps, noMutate, mutators, eqCheckMap, nReads>>
\* the store as the write finds it; fired starts anew with a top-level write
Entry == [Store EXCEPT !.fired = IF AtTop THEN EmptyBag ELSE fired]

\* reactive_store.js:413-422  the end of _watchChanges: with the counter back at
\* zero the pending deps are flushed.  oc is the counter after this step.
\* a variant that flushes whenever an operation ends
WatchChangesEndEager(st, oc) == IF st.pending # {} THEN Flush(st) ELSE st

\* the dep the observing computation depends on is pending
Observed(st) == st.observer # NoObserver /\ ValDep(st.observer[1]) \in st.pending
\* reactive_store.js:417-421 with 408-422 inside: the loop reaches the observed
\* dep, whose changed() invalidates the computation, and the callback calls
\* assign(q, w).  The counter is at zero (line 413) and this._changeData.deps
\* is still the set being looped over, so the assign registers its deps into
\* that set and, its own counter back at zero, loops over the whole of it and
\* replaces it; the interrupted loop then goes on with the elements it has not
\* visited, those the assign added included.  w is the store after
\* the callback's _setAtPath: whatever the position of the observed dep in the
\* set, every dep of the set has been changed() by both loops.
Reentered(w) ==
    [w EXCEPT !.fired = @ (+) SetToBag(w.pending) (+) SetToBag(w.pending),
              !.pending = {}]
\* reactive_store.js:417-421: the flush, the observer's callback included
FlushLoop(st) ==
    IF Observed(st)
    THEN Reentered(SetAtPathAfterMutate([st EXCEPT !.observer = NoObserver],
                                        st.observer[2], st.observer[3]))
    ELSE Flush(st)
WatchChangesEnd(st, oc) == IF oc = 0 /\ st.pending # {} THEN FlushLoop(st) ELSE st

\* the step's result st becomes the state; with no operation left in progress
\* the unreachable cells are reclaimed
Becomes(st, stk, oc) ==
    /\ data' = st.data
    /\ trav' = st.trav
    /\ active' = st.active
    /\ heap' = IF stk = <<>> THEN Collect(st.heap, Reach(st.heap, st.data))
               ELSE st.heap
    /\ pending' = st.pending
    /\ fired' = st.fired
    /\ observer' = st.observer
    /\ opCount' = oc
    /\ stack' = stk
\* an operation ends (or stops inside a mutator) with the counter at oc
Commit(st0, stk, oc) == Becomes(WatchChangesEnd(st0, oc), stk, oc)

\* the entries have run up to r.todo: the write returns (the counter restored)
\* or stops inside a mutator, the rest of the entries kept on the stack
EndWrite(kind, r, stk) ==
    IF r.todo = <<>>
    THEN Commit(r.st, stk, opCount)
    ELSE Commit(r.st, <<[kind |-> kind, todo |-> r.todo]>> \o stk, opCount + 1)

\* reactive_store.js:408-413 then 221-223: _watchChanges runs the entries
RunWrite(kind, st, entries, stk) == EndWrite(kind, RunEntries(st, entries), stk)

\* reactive_store.js:220-224: assign with the values r.entries built in r.heap
Assigned(r) ==
    /\ Begin("assign", r.entries)
    /\ RunWrite("assign", [Entry EXCEPT !.heap = r.heap], r.entries, stack)
    /\ step' = [act |-> "assign", path |-> r.entries[1][1], val |-> r.entries[1][2]]

\* reactive_store.js:214-226  assign(path, value) / assign(pathValueMap)
Assign(specs) ==
    /\ \A i \in 1..Len(specs) : Usable(Store, specs[i][2])
    /\ FreeFor(Store, CellsFor(specs))
    /\ Assigned(ResolveEntries(Store, specs, <<>>))

\* reactive_store.js:232-241  delete(...paths)
Delete(paths) ==
    LET entries == [i \in 1..Len(paths) |-> <<paths[i], DELETE>>]
    IN /\ Begin("delete", entries)
       /\ IF trav
          THEN RunWrite("delete", Entry, entries, stack)
          ELSE /\ UNCHANGED <<data, heap, trav, active, pending, opCount, stack,
                             observer>>
               /\ fired' = Entry.fired
       /\ step' = [act |-> "delete", path |-> paths[1], val |-> DELETE]

\* reactive_store.js:195-202: set with the value r.val built in r.heap
SetTo(kind, r) ==
    /\ Begin(kind, <<<<ROOT, r.val>>>>)
    /\ Commit(SetRoot([Entry EXCEPT !.heap = r.heap], r.val), stack, opCount)
    /\ step' = [act |-> kind, path |-> ROOT, val |-> r.val]

\* reactive_store.js:195-202  set(value)
Set(spec) ==
    /\ Usable(Store, spec)
    /\ FreeFor(Store, CellsNeeded(spec))
    /\ SetTo("set", Resolve(Store, spec, Undefined))

\* reactive_store.js:247-249  clear()
Clear ==
    /\ FreeFor(Store, 1)
    /\ SetTo("clear",
             IF trav
             \* new this.data.constructor()
             THEN [heap |-> [heap EXCEPT ![NthFree(FreeAddrs(heap), 1)] =
                                IF heap[AddrOf(data)].cat = "Array"
                                THEN EmptyArray ELSE EmptyObject],
                   val |-> Ref(NthFree(FreeAddrs(heap), 1))]
             ELSE [heap |-> heap, val |-> Undefined])

\* the entries of the interrupted write have run on up to run.todo
Resume(run) ==
    IF run.todo = <<>>
    THEN Commit(run.st, Tail(stack), opCount - 1)
    ELSE Commit(run.st, <<[Head(stack) EXCEPT !.todo = run.todo]>> \o Tail(stack),
                opCount)
\* a variant in which a delete stays a delete whatever its mutator returns,
\* short of CANCEL
ReturnedKeepsDelete(entry, r) ==
    /\ Resume(RunEntries(SetAtPathAfterMutate(
                             [Store EXCEPT !.heap = r.heap], entry[1],
                             IF Head(stack).kind = "delete" /\ r.val # CANCEL
                             THEN DELETE ELSE r.val),
                         Tail(Head(stack).todo)))
    /\ step' = [act |-> "return", path |-> entry[1], val |-> r.val]
\* the mutator of entry has returned the value r.val
Returned(entry, r) ==
    /\ Resume(RunEntries(SetAtPathAfterMutate([Store EXCEPT !.heap = r.heap],
                                               entry[1], r.val),
                         Tail(Head(stack).todo)))
    /\ step' = [act |-> "return", path |-> entry[1], val |-> r.val]

\* reactive_store.js:317-402: the running mutator returns; _setAtPath goes on
\* with the returned value, and the write with its remaining entries.
MutatorReturns(spec) ==
    /\ ~AtTop /\ Head(stack).kind # "noMutation"
    /\ Usable(Store, spec)
    /\ FreeFor(Store, CellsNeeded(spec) + CellsFor(Head(stack).todo))
    /\ Returned(Head(Head(stack).todo), Resolve(Store, spec, Head(Head(stack).todo)[2]))
    /\ UNCHANGED <<nodes, valDeps, eqDeps, noMutate, mutators, eqCheckMap, last, nOps, nReads>>

\* reactive_store.js:317 with 411-413 and 292-294: the running mutator throws.
\* Nothing catches the error on its way to the program: op() of line 412 does
\* not return in any _watchChanges in progress, so no counter is decremented
\* and nothing is flushed, and a noMutation in progress does not clear its flag.
MutatorThrows ==
    /\ ~AtTop /\ Head(stack).kind # "noMutation"
    /\ stack' = <<>>
    /\ heap' = Collect(heap, Reach(heap, data))
    /\ step' = [act |-> "raise", path |-> Head(Head(stack).todo)[1],
                val |-> Head(Head(stack).todo)[2]]
    /\ UNCHANGED <<data, trav, nodes, valDeps, eqDeps, active, opCount, pending,
                   noMutate, mutators, eqCheckMap, fired, observer, last, nOps,
                   nReads>>

\* reactive_store.js:78-84  ReactiveStore.addEqualityCheck(constructor, isEqual)
AddEqualityCheck(c, check) ==
    /\ AtTop /\ nOps < MaxOps
    /\ eqCheckMap[c] # check
    /\ eqCheckMap' = [eqCheckMap EXCEPT ![c] = check]
    /\ step' = [act |-> "addEqualityCheck", path |-> ROOT, val |-> Undefined]
    /\ UNCHANGED <<data, heap, trav, nodes, valDeps, eqDeps, active, opCount,
                   pending, noMutate, mutators, stack, fired, observer, last, nOps,
                   nReads>>

\* reactive_store.js:87-93  ReactiveStore.removeEqualityCheck(constructor)
RemoveEqualityCheck(c) ==
    /\ AtTop /\ nOps < MaxOps
    /\ eqCheckMap[c] # NoCheck
    /\ eqCheckMap' = [eqCheckMap EXCEPT ![c] = NoCheck]
    /\ step' = [act |-> "removeEqualityCheck", path |-> ROOT, val |-> Undefined]
    /\ UNCHANGED <<data, heap, trav, nodes, valDeps, eqDeps, active, opCount,
                   pending, noMutate, mutators, stack, fired, observer, last, nOps,
                   nReads>>

\* reactive_store.js:277-285  updateMutators(mutatorMap): the paths ps are the
\* keys of the map whose value is a function; called by the program or by the
\* running mutator
UpdateMutators(ps) ==
    /\ AtTop => nOps < MaxOps
    /\ ~(ps \subseteq mutators)
    /\ mutators' = mutators \cup ps
    /\ step' = [act |-> "updateMutators", path |-> ROOT, val |-> Undefined]
    /\ UNCHANGED <<data, heap, trav, nodes, valDeps, eqDeps, active, opCount,
                   pending, noMutate, eqCheckMap, stack, fired, observer, last, nOps,
                   nReads>>

\* reactive_store.js:301-305  removeMutators(...paths)
RemoveMutators(ps) ==
    /\ AtTop => nOps < MaxOps
    /\ ps \cap mutators # {}
    /\ mutators' = mutators \ ps
    /\ step' = [act |-> "removeMutators", path |-> ROOT, val |-> Undefined]
    /\ UNCHANGED <<data, heap, trav, nodes, valDeps, eqDeps, active, opCount,
                   pending, noMutate, eqCheckMap, stack, fired, observer, last, nOps,
                   nReads>>

\* the noMutation calls in progress
NoMutDepth == Cardinality({i \in DOMAIN stack : stack[i].kind = "noMutation"})

\* reactive_store.js:291-293  noMutation(op): the flag is set and op starts
NoMutationBegin ==
    /\ NoMutDepth < MaxNoMut
    /\ AtTop => nOps < MaxOps
    /\ noMutate' = TRUE
    /\ stack' = <<[kind |-> "noMutation", todo |-> <<>>]>> \o stack
    /\ step' = [act |-> "noMutation", path |-> ROOT, val |-> Undefined]
    /\ UNCHANGED <<data, heap, trav, nodes, valDeps, eqDeps, active, opCount,
                   pending, mutators, eqCheckMap, fired, observer, last, nOps, nReads>>

\* reactive_store.js:293-295  noMutation(op): op has returned and the flag is
\* cleared
NoMutationEnd ==
    /\ ~AtTop /\ Head(stack).kind = "noMutation"
    /\ noMutate' = FALSE
    /\ stack' = Tail(stack)
    /\ step' = [act |-> "noMutationEnd", path |-> ROOT, val |-> Undefined]
    /\ UNCHANGED <<data, heap, trav, nodes, valDeps, eqDeps, active, opCount,
                   pending, mutators, eqCheckMap, fired, observer, last, nOps, nReads>>

\* reactive_store.js:116-129 with 636-662  get(path) outside a computation
\* (Tracker.active false): _findProperty ensures no dep node and get no dep;
\* called by the program or by the running mutator
GetPlain(path) ==
    /\ nReads < MaxReads
    /\ nReads' = nReads + 1
    /\ step' = [act |-> "getPlain", path |-> path, val |-> Get(path)]
    /\ UNCHANGED <<data, heap, trav, nodes, valDeps, eqDeps, active, opCount,
                   pending, noMutate, mutators, eqCheckMap, stack, fired, observer,
                   last, nOps>>

\* a variant that makes the caller depend on every node along the path
GetReactiveDependsAlong(path) ==
    /\ AtTop /\ nReads < MaxReads /\ nOps < MaxOps
    /\ nodes' = nodes \cup Prefixes(path)
    /\ valDeps' = valDeps \cup Prefixes(path)
    /\ nReads' = nReads + 1
    /\ step' = [act |-> "get", path |-> path, val |-> Get(path)]
    /\ UNCHANGED <<data, heap, trav, eqDeps, active, opCount, pending, noMutate,
                   mutators, eqCheckMap, stack, fired, observer, last, nOps>>

\* reactive_store.js:116-129  get(path) inside a computation (Tracker.active):
\* _findProperty creates the dep nodes along the path, get the dep
GetReactive(path) ==
    \* a computation is modelled while a write can still follow it
    /\ AtTop /\ nReads < MaxReads /\ nOps < MaxOps
    /\ nodes' = nodes \cup Prefixes(path)
    /\ valDeps' = valDeps \cup {path}
    /\ nReads' = nReads + 1
    /\ step' = [act |-> "get", path |-> path, val |-> Get(path)]
    /\ UNCHANGED <<data, heap, trav, eqDeps, active, opCount, pending, noMutate,
                   mutators, eqCheckMap, stack, fired, observer, last, nOps>>

\* get(path) inside a computation whose onInvalidate callback calls
\* assign(q, w) on the store
ObserveReactive(path, q, w) ==
    /\ AtTop /\ nReads < MaxReads /\ nOps < MaxOps
    /\ observer = NoObserver
    /\ nodes' = nodes \cup Prefixes(path)
    /\ valDeps' = valDeps \cup {path}
    /\ observer' = <<path, q, w>>
    /\ nReads' = nReads + 1
    /\ step' = [act |-> "observe", path |-> path, val |-> Get(path)]
    /\ UNCHANGED <<data, heap, trav, eqDeps, active, opCount, pending, noMutate,
                   mutators, eqCheckMap, stack, fired, last, nOps>>

\* a variant that accepts every compare value
EqualsThrowsNever(value) == FALSE
\* reactive_store.js:156-159: the compare value is refused
EqualsThrows(value) == InstanceOfObject(value)

\* reactive_store.js:143-189  equals(path, value) inside a computation: the
\* error of line 158 leaves the call before anything is looked up; otherwise
\* _findProperty creates the dep nodes along the path, and the equality dep of
\* the value is created and made the active one when the verdict is true
EqualsWith(path, value) ==
    /\ IF EqualsThrows(value)
       THEN /\ step' = [act |-> "throw", path |-> path, val |-> value]
            /\ UNCHANGED <<nodes, eqDeps, active>>
       ELSE /\ nodes' = nodes \cup Prefixes(path)
            /\ eqDeps' = eqDeps \cup {<<path, value>>}
            /\ active' = IF EqualsVerdict(path, value)
                         THEN [active EXCEPT ![path] = value] ELSE active
            /\ step' = [act |-> "equals", path |-> path, val |-> value]
    /\ nReads' = nReads + 1
    /\ UNCHANGED <<data, heap, trav, valDeps, opCount, pending, noMutate,
                   mutators, eqCheckMap, stack, fired, observer, last, nOps>>

\* reactive_store.js:143-189  equals(path, value) outside a computation: the
\* error of line 158, or the verdict and nothing else
EqualsPlain(path, spec) ==
    /\ nReads < MaxReads
    /\ Usable(Store, spec)
    /\ nReads' = nReads + 1
    /\ step' = [act |-> IF EqualsThrows(Resolve(Store, spec, Undefined).val)
                        THEN "throw" ELSE "equalsPlain",
                path |-> path, val |-> Resolve(Store, spec, Undefined).val]
    /\ UNCHANGED <<data, heap, trav, nodes, valDeps, eqDeps, active, opCount,
                   pending, noMutate, mutators, eqCheckMap, stack, fired, observer,
                   last, nOps>>

\* equals(path, value) called by a computation with the value spec names
EqualsReactive(path, spec) ==
    \* a computation is modelled while a write can still follow it
    /\ AtTop /\ nReads < MaxReads /\ nOps < MaxOps
    /\ Usable(Store, spec)
    /\ EqualsWith(path, Resolve(Store, spec, Undefined).val)

\* ------------------------------------------------------------ specification
Prims == {Undefined, Null, Num(1)}
PrimSpecs == {<<"prim", v>> : v \in Prims}
GetInputs == {ROOT, <<"a">>, <<"a", "0">>, <<"0", "a">>, <<"a", "a">>}

\* reactive_store.js:28-38  constructor(data, mutatorMap)
Construct(spec, ms) ==
    LET r == Resolve([heap |-> [a \in Addr |-> FreeCell], data |-> Undefined],
                     spec, Undefined)
    IN /\ data = r.val
       /\ heap = r.heap
       /\ trav = isTraversable(r.heap, r.val)
       /\ nodes = {ROOT}
       /\ valDeps = {}
       /\ eqDeps = {}
       /\ active = [p \in AllPaths |-> NoDep]
       /\ opCount = 0
       /\ pending = {}
       /\ noMutate = FALSE
       /\ mutators = ms
       /\ eqCheckMap = DefaultChecks
       /\ stack = <<>>
       /\ fired = EmptyBag
       /\ observer = NoObserver
       /\ last = [kind |-> "none", entries |-> <<>>,
                  pre |-> [data |-> r.val, heap |-> r.heap,
                           trav |-> isTraversable(r.heap, r.val),
                           active |-> [p \in AllPaths |-> NoDep],
                           valDeps |-> {}, observer |-> NoObserver],
                  nest |-> 0, prev |-> NoPrev]
       /\ step = [act |-> "new", path |-> ROOT, val |-> r.val]
       /\ nOps = 0
       /\ nReads = 0

\* --- Spec: a store without mutators, read through get()
SetSpecs == PrimSpecs
              \cup {<<"fresh", t>> : t \in {"one", "nest", "array", "date", "shallow"}}
              \cup {<<"alias", ROOT>>}
InputPaths == {<<"a">>, <<"0">>, <<"a", "0">>, <<"0", "a">>}
AssignSpecs == {<<"prim", Undefined>>, <<"prim", Num(1)>>, <<"fresh", "one">>,
                <<"fresh", "shared">>, <<"alias", <<"a">>>>, <<"prim", DELETE>>,
                <<"prim", CANCEL>>}
\* the path -> value maps passed to assign, as Object.entries lists them (line
\* 221): an integer-like key such as "0" first, the others in insertion order
AssignInputs ==
    {<<<<p, s>>>> : p \in InputPaths, s \in AssignSpecs}
    \cup {<<<<pq[1], <<"prim", Num(1)>>>>, <<pq[2], <<"prim", Null>>>>>> :
            pq \in {<<<<"a", "0">>, <<"0", "a">>>>, <<<<"0">>, <<"a">>>>,
                    <<<<"a", "0">>, <<"a">>>>}}
DeleteInputs ==
    {<<p>> : p \in InputPaths} \cup {<<<<"a", "0">>, <<"0", "a">>>>}
InitSpecs == {<<"prim", Undefined>>, <<"fresh", "nest">>, <<"fresh", "deep">>}

Init == \E spec \in InitSpecs : Construct(spec, {})

Next ==
    \/ \E p \in GetInputs : GetReactive(p)
    \/ \E s \in SetSpecs : Set(s)
    \/ \E e \in AssignInputs : Assign(e)
    \/ \E ps \in DeleteInputs : Delete(ps)
    \/ Clear

Spec == Init /\ [][Next]_vars

\* --- SpecMut: a store with a mutator on path a; the mutator may write to the
\* store before it returns
MutInitSpecs == {<<"prim", Undefined>>, <<"fresh", "nest">>}
MutGetInputs == {ROOT, <<"a">>, <<"0">>, <<"a", "0">>}
MutAssignInputs ==
    {<<<<p, s>>>> : p \in {<<"a">>, <<"0">>},
                    s \in {<<"prim", Num(1)>>, <<"fresh", "one">>, <<"prim", DELETE>>}}
    \cup {<<<<<<"a">>, <<"prim", Num(1)>>>>, <<<<"0", "a">>, <<"prim", Null>>>>>>,
          <<<<<<"0">>, <<"prim", Num(1)>>>>, <<<<"a">>, <<"prim", Null>>>>>>}
MutDeleteInputs == {<<<<"a">>>>, <<<<"a">>, <<"0">>>>}
NestedAssignInputs == {<<<<<<"0">>, <<"prim", Num(1)>>>>>>,
                       <<<<<<"a", "0">>, <<"prim", Num(1)>>>>>>}
NestedSetSpecs == {<<"prim", Null>>}
ReturnSpecs == {<<"arg", 0>>, <<"prim", CANCEL>>, <<"prim", DELETE>>,
                <<"prim", Num(1)>>}

InitMut == \E spec \in MutInitSpecs : Construct(spec, {<<"a">>})

NextMut ==
    \/ \E p \in MutGetInputs : GetReactive(p)
    \/ AtTop /\ \E e \in MutAssignInputs : Assign(e)
    \/ AtTop /\ \E ps \in MutDeleteInputs : Delete(ps)
    \/ ~AtTop /\ \E e \in NestedAssignInputs : Assign(e)
    \/ ~AtTop /\ \E s \in NestedSetSpecs : Set(s)
    \/ ~AtTop /\ Delete(<<<<"0">>>>)
    \/ \E s \in ReturnSpecs : MutatorReturns(s)

SpecMut == InitMut /\ [][NextMut]_vars

\* --- SpecEq: a store without mutators, read through equals() and get()
EqInitSpecs == {<<"prim", Undefined>>, <<"fresh", "nest">>}
\* the compare values: primitives, a function and an object got from the store
EqCompareSpecs == {<<"prim", Undefined>>, <<"prim", Num(1)>>, <<"prim", NaN>>}
EqBadSpecs == {<<"prim", Fn(1)>>, <<"alias", <<"a">>>>}
EqPaths == {<<"a">>, <<"0">>, <<"a", "0">>}
EqGetInputs == {ROOT, <<"a", "a">>}
EqAssignInputs ==
    {<<<<<<"a">>, s>>>> : s \in {<<"prim", Num(1)>>, <<"prim", NaN>>,
                                 <<"prim", Undefined>>, <<"fresh", "one">>,
                                 <<"prim", DELETE>>}}
    \cup {<<<<<<"0">>, <<"alias", <<"a">>>>>>>>}
    \cup {<<<<<<"0", "a">>, s>>>> : s \in {<<"prim", Undefined>>, <<"prim", Num(1)>>}}
    \cup {<<<<<<"a", "0">>, s>>>> : s \in {<<"prim", Num(1)>>, <<"prim", Num(2)>>}}
EqDeleteInputs == {<<<<"a", "0">>>>}
EqSetSpecs == {<<"prim", Num(1)>>, <<"fresh", "one">>}

InitEq == \E spec \in EqInitSpecs : Construct(spec, {})

NextEq ==
    \/ \E p \in EqPaths, s \in EqCompareSpecs : EqualsReactive(p, s)
    \/ \E s \in EqCompareSpecs : EqualsReactive(ROOT, s)
    \/ \E s \in EqBadSpecs : EqualsReactive(<<"a">>, s)
    \/ \E p \in EqGetInputs : GetReactive(p)
    \/ \E e \in EqAssignInputs : Assign(e)
    \/ \E ps \in EqDeleteInputs : Delete(ps)
    \/ \E s \in EqSetSpecs : Set(s)

SpecEq == InitEq /\ [][NextEq]_vars

\* --- SpecCyc: a store without mutators that is given cyclical values
CycInitSpecs == {<<"prim", Undefined>>, <<"fresh", "nest">>, <<"fresh", "cyclic">>}
CycGetInputs == {ROOT, <<"a">>, <<"a", "a">>}
CycValueSpecs == {<<"fresh", "cyclic">>, <<"fresh", "cyclic2">>,
                  <<"fresh", "cyclicArray">>, <<"alias", ROOT>>}
CycSetSpecs == CycValueSpecs \cup {<<"prim", Num(1)>>}
CycAssignInputs ==
    {<<<<p, s>>>> : p \in {<<"a">>, <<"a", "a">>},
                    s \in CycValueSpecs \cup {<<"alias", <<"a">>>>}}

InitCyc == \E spec \in CycInitSpecs : Construct(spec, {})

NextCyc ==
    \/ \E p \in CycGetInputs : GetReactive(p)
    \/ \E s \in CycSetSpecs : Set(s)
    \/ \E e \in CycAssignInputs : Assign(e)

SpecCyc == InitCyc /\ [][NextCyc]_vars

\* --- SpecNoMut: a store with a mutator on path a, written inside noMutation
\* calls, which may be nested and may be made by the mutator
NoMutAssignInputs == {<<<<p, <<"prim", Num(1)>>>>>> : p \in {<<"a">>, <<"0">>}}
                       \cup {<<<<<<"a">>, <<"prim", DELETE>>>>>>}
NoMutDeleteInputs == {<<<<"a">>>>}
NoMutReturnSpecs == {<<"arg", 0>>, <<"prim", Num(2)>>}

InitNoMut == \E spec \in MutInitSpecs : Construct(spec, {<<"a">>})

NextNoMut ==
    \/ NoMutationBegin
    \/ NoMutationEnd
    \/ GetReactive(<<"a">>)
    \/ \E e \in NoMutAssignInputs : Assign(e)
    \/ \E ps \in NoMutDeleteInputs : Delete(ps)
    \/ \E s \in NoMutReturnSpecs : MutatorReturns(s)

SpecNoMut == InitNoMut /\ [][NextNoMut]_vars

\* --- SpecDisp: a store whose mutators are registered and removed while it is
\* written, by the program and by the running mutator
DispMutatorPaths == {<<"a">>, <<"0">>, <<"a", "0">>}
DispAssignInputs ==
    {<<<<p, <<"prim", Num(1)>>>>>> : p \in DispMutatorPaths}
    \cup {<<<<<<"0">>, <<"prim", Num(1)>>>>, <<<<"a">>, <<"prim", Null>>>>>>,
          <<<<<<"a">>, <<"prim", Num(1)>>>>, <<<<"a", "0">>, <<"prim", Null>>>>>>}
DispDeleteInputs == {<<<<"a">>>>, <<<<"a", "0">>>>, <<<<"0">>, <<"a">>>>}
DispReturnSpecs == {<<"arg", 0>>, <<"prim", CANCEL>>, <<"prim", Num(1)>>}

NextDisp ==
    \/ \E p \in {<<"0">>, <<"a", "0">>} : UpdateMutators({p})
    \/ RemoveMutators({<<"a">>})
    \/ AtTop /\ NoMutationBegin
    \/ GetReactive(<<"a">>)
    \/ NoMutationEnd
    \/ AtTop /\ \E e \in DispAssignInputs : Assign(e)
    \/ AtTop /\ \E ps \in DispDeleteInputs : Delete(ps)
    \/ ~AtTop /\ Assign(<<<<<<"0">>, <<"prim", Num(1)>>>>>>)
    \/ AtTop /\ Set(<<"prim", Null>>)
    \/ AtTop /\ Clear
    \/ \E s \in DispReturnSpecs : MutatorReturns(s)

SpecDisp == InitMut /\ [][NextDisp]_vars

\* --- SpecRead: a store with a mutator on path a that is read inside and
\* outside computations, by the program and by the running mutator
ReadPaths == {ROOT, <<"a">>, <<"0">>, <<"a", "0">>}
ReadCompareSpecs == {<<"prim", Num(1)>>, <<"alias", <<"a">>>>}
ReadAssignInputs ==
    {<<<<<<"a">>, <<"prim", Num(1)>>>>>>,
     <<<<<<"0">>, <<"prim", Num(1)>>>>, <<<<"a">>, <<"prim", Null>>>>>>}

NextRead ==
    \/ \E p \in ReadPaths : GetReactive(p)
    \/ \E p \in ReadPaths, s \in ReadCompareSpecs : EqualsReactive(p, s)
    \/ \E p \in ReadPaths : GetPlain(p)
    \/ \E p \in ReadPaths, s \in ReadCompareSpecs : EqualsPlain(p, s)
    \/ AtTop /\ \E e \in ReadAssignInputs : Assign(e)
    \/ AtTop /\ Delete(<<<<"a">>>>)
    \/ \E s \in {<<"arg", 0>>, <<"prim", CANCEL>>} : MutatorReturns(s)

SpecRead == InitMut /\ [][NextRead]_vars

\* --- SpecThrow: a store with a mutator on path a that may throw
ThrowGetInputs == {ROOT, <<"0">>, <<"a">>}
ThrowAssignInputs ==
    {<<<<<<"a">>, <<"prim", Num(1)>>>>>>, <<<<<<"0">>, <<"prim", Num(2)>>>>>>,
     <<<<<<"0">>, <<"prim", Num(2)>>>>, <<<<"a">>, <<"prim", Null>>>>>>}

NextThrow ==
    \/ \E p \in ThrowGetInputs : GetReactive(p)
    \/ AtTop /\ \E e \in ThrowAssignInputs : Assign(e)
    \/ AtTop /\ Delete(<<<<"a">>>>)
    \/ MutatorReturns(<<"arg", 0>>)
    \/ MutatorThrows

SpecThrow == InitMut /\ [][NextThrow]_vars

\* --- SpecPair: a store without mutators that is assigned two paths in one
\* call, neither path a prefix of the other
PairInitSpecs == {<<"prim", Num(1)>>, <<"fresh", "nest">>}
PairGetInputs == {ROOT, <<"a">>, <<"0">>, <<"0", "0">>, <<"a", "a">>}
PairValueSpecs == {<<"prim", Num(2)>>, <<"prim", Undefined>>, <<"prim", DELETE>>}
PairAssignInputs ==
    {<<<<<<"a", "0">>, v>>, <<<<"a", "a">>, w>>>> : v, w \in PairValueSpecs}
    \cup {<<<<<<"0">>, v>>, <<<<"a", "a">>, w>>>> :
              v \in {<<"fresh", "one">>, <<"prim", DELETE>>}, w \in PairValueSpecs}
    \cup {<<<<<<"0">>, <<"alias", <<"a">>>>>>, <<<<"a", "0">>, <<"prim", Num(2)>>>>>>,
          <<<<<<"a", "0">>, <<"prim", Num(2)>>>>, <<<<"0">>, <<"alias", <<"a">>>>>>>>}
    \cup {<<<<<<"0">>, <<"fresh", "one">>>>>>}

InitPair == \E spec \in PairInitSpecs : Construct(spec, {})

NextPair ==
    \/ \E p \in PairGetInputs : GetReactive(p)
    \/ EqualsReactive(<<"a">>, <<"prim", Num(1)>>)
    \/ \E e \in PairAssignInputs : Assign(e)

SpecPair == InitPair /\ [][NextPair]_vars

\* --- SpecObs: a store without mutators, one of whose computations writes to
\* the store when it is invalidated
ObsGetInputs == {ROOT, <<"a">>, <<"0">>}
ObsWrites == {<<<<"0">>, Num(2)>>, <<<<"a", "a">>, Num(2)>>}
ObsAssignInputs ==
    {<<<<p, <<"prim", v>>>>>> : p \in {<<"a">>, <<"0">>}, v \in {Num(1), DELETE}}
    \cup {<<<<<<"0">>, <<"prim", Num(1)>>>>, <<<<"a">>, <<"prim", Null>>>>>>}

InitObs == \E spec \in MutInitSpecs : Construct(spec, {})

NextObs ==
    \/ \E p \in ObsGetInputs : GetReactive(p)
    \/ \E p \in {<<"a">>, <<"0">>}, e \in ObsWrites : ObserveReactive(p, e[1], e[2])
    \/ \E e \in ObsAssignInputs : Assign(e)
    \/ \E s \in {<<"prim", Num(1)>>, <<"fresh", "one">>} : Set(s)

SpecObs == InitObs /\ [][NextObs]_vars

\* --- SpecDel: a store without mutators, read at and below the paths that are
\* then deleted
DelInitSpecs == {<<"fresh", t>> : t \in {"one", "nest", "deep"}}
DelGetInputs == {<<"a">>, <<"0", "a">>, <<"a", "0">>, <<"a", "a">>,
                 <<"a", "0", "a">>, <<"a", "a", "a">>}
DelEqInputs == {<<<<"a", "0">>, <<"prim", v>>>> : v \in {Num(1), Undefined}}
DelDeleteInputs == {<<<<"a">>>>, <<<<"0">>>>, <<<<"a", "a">>>>, <<<<"a", "0">>>>}

InitDel == \E spec \in DelInitSpecs : Construct(spec, {})

NextDel ==
    \/ \E p \in DelGetInputs : GetReactive(p)
    \/ \E e \in DelEqInputs : EqualsReactive(e[1], e[2])
    \/ \E ps \in DelDeleteInputs : Delete(ps)

SpecDel == InitDel /\ [][NextDel]_vars

\* --- SpecOpq: a store without mutators that is given values it does not
\* traverse: shallow-marked mappings and class instances
OpqInitSpecs == {<<"prim", Undefined>>, <<"prim", Num(1)>>, <<"fresh", "shallow">>,
                 <<"fresh", "date">>}
OpqGetInputs == {ROOT, <<"a">>, <<"a", "a">>}
OpqValueSpecs == {<<"fresh", "shallow">>, <<"fresh", "shallowArray">>,
                  <<"fresh", "date">>}
OpqAssignInputs ==
    {<<<<<<"a">>, s>>>> : s \in OpqValueSpecs \cup {<<"prim", Num(1)>>}}
    \cup {<<<<p, <<"prim", v>>>>>> : p \in {<<"a", "a">>, <<"0">>},
                                     v \in {Num(1), DELETE, CANCEL}}

InitOpq == \E spec \in OpqInitSpecs : Construct(spec, {})

NextOpq ==
    \/ \E p \in OpqGetInputs : GetReactive(p)
    \/ \E s \in OpqValueSpecs : Set(s)
    \/ \E e \in OpqAssignInputs : Assign(e)

SpecOpq == InitOpq /\ [][NextOpq]_vars

\* --- SpecChk: a store without mutators that holds values it does not
\* traverse, while equality checks are added and removed
ChkInitSpecs == {<<"fresh", "date">>, <<"fresh", "shallow">>}
ChkGetInputs == {ROOT, <<"a">>}
ChkValueSpecs == {<<"fresh", "shallow">>, <<"fresh", "date">>, <<"fresh", "date2">>,
                  <<"prim", Num(1)>>}
ChkCtors == {"Date", "Object"}

InitChk == \E spec \in ChkInitSpecs : Construct(spec, {})

NextChk ==
    \/ \E p \in ChkGetInputs : GetReactive(p)
    \/ \E s \in ChkValueSpecs : Set(s)
    \/ \E s \in ChkValueSpecs : Assign(<<<<<<"a">>, s>>>>)
    \/ \E c \in ChkCtors : AddEqualityCheck(c, AnyCheck)
    \/ \E c \in ChkCtors : RemoveEqualityCheck(c)

SpecChk == InitChk /\ [][NextChk]_vars

\* --- SpecRoot: a store without mutators whose root is replaced as a whole, by
\* set() and clear()
RootInitSpecs == {<<"prim", Undefined>>, <<"prim", Num(1)>>}
                   \cup {<<"fresh", t>> : t \in {"empty", "nest", "shared", "array",
                                                 "date", "shallow"}}
RootGetInputs == {ROOT, <<"a">>, <<"0">>, <<"a", "0">>, <<"0", "a">>, <<"a", "a">>}
RootSetSpecs == {<<"prim", Undefined>>, <<"prim", Null>>}
                  \cup {<<"fresh", t>> : t \in {"empty", "undef", "undef0", "nest",
                                                "shared"}}

InitRoot == \E spec \in RootInitSpecs : Construct(spec, {})

NextRoot ==
    \/ \E p \in RootGetInputs : GetReactive(p)
    \/ EqualsReactive(<<"a", "a">>, <<"prim", Num(1)>>)
    \/ \E s \in RootSetSpecs : Set(s)
    \/ Clear

SpecRoot == InitRoot /\ [][NextRoot]_vars

\* ---------------------------------------------------------------- properties
\* The state right after a top-level write has returned.
WriteDone == AtTop /\ step.act \in {"set", "assign", "delete", "clear", "return"}
\* the last top-level write was assign(p, v) with one path
SingleAssign == WriteDone /\ last.kind = "assign" /\ Len(last.entries) = 1
LastPath == last.entries[1][1]
LastValue == last.entries[1][2]
\* get(q) before the last top-level write
PreGet(q) == FindValue(last.pre.heap, last.pre.data, q)
Invalidated(d) == BagIn(d, fired)
\* the value at path tokens exists: every segment before the last is a
\* traversable value that has the next key
RECURSIVE PathExists(_, _, _)
PathExists(h, v, tokens) ==
    \/ tokens = <<>>
    \/ /\ IsRef(v)
       /\ h[AddrOf(v)].cat \in {"Object", "Array"} /\ ~h[AddrOf(v)].shallow
       /\ Head(tokens) \in DOMAIN h[AddrOf(v)].props
       /\ PathExists(h, h[AddrOf(v)].props[Head(tokens)], Tail(tokens))
\* What get(q) returns after the write cannot be told from what it returned
\* before it, a key holding undefined counting as an absent key.
Unchanged(q) == SameValue(last.pre.heap, PreGet(q), heap, Get(q), FALSE, {})

\* C1 (as claimed): every value subscription whose value differs after a write
\* (primitives by identity, mappings by their defined keys and nested contents)
\* is invalidated when the write's batch flushes.
C1_NoMissedChange ==
    WriteDone => \A q \in valDeps : ~Unchanged(q) => Invalidated(ValDep(q))

\* C2 (as claimed): a value subscription is invalidated by a write only if the
\* value at its path differs after the write; in particular a path that is
\* absent before and absent after is not invalidated.
C2_PreciseNotification ==
    WriteDone => \A q \in valDeps :
        Invalidated(ValDep(q)) => ~(PreGet(q) = Undefined /\ Get(q) = Undefined)

WriteActs == {"set", "assign", "delete", "clear", "return"}
\* this step calls changed() on some dependency
Delivers == step'.act \in WriteActs /\ fired' # (IF AtTop THEN EmptyBag ELSE fired)

\* C3: no dependency is invalidated while the operation counter is above zero:
\* a step delivers notifications only when it leaves no operation in progress,
\* the counter at zero and nothing pending, and while a write is in progress
\* nothing has been delivered since it began.
C3_DeferredFlush ==
    /\ [][Delivers => (stack' = <<>> /\ opCount' = 0 /\ pending' = {})]_vars
    /\ [](opCount > 0 => fired = EmptyBag)
\* a mutator wrote to the store, and the notifications went out after the
\* outermost write returned
C3_Witness ==
    /\ AtTop /\ step.act = "return" /\ last.nest > 0
    /\ opCount = 0 /\ fired # EmptyBag

\* C4: within one assign or delete of several paths every dependency is
\* invalidated at most once.
C4_BatchCoalescing ==
    (WriteDone /\ last.kind \in {"assign", "delete"} /\ Len(last.entries) > 1)
        => \A d \in BagToSet(fired) : CopiesIn(d, fired) = 1
\* both paths of a two-path assign changed, and the root dependency they share
\* was invalidated once
C4_Witness ==
    /\ WriteDone /\ last.kind = "assign" /\ Len(last.entries) = 2
    /\ \A i \in 1..2 : ~Unchanged(last.entries[i][1])
    /\ ROOT \in valDeps /\ CopiesIn(ValDep(ROOT), fired) = 1

\* a mapping or sequence built of mappings, sequences and primitives only
RECURSIVE Plain(_, _, _)
Plain(h, v, seen) ==
    \/ ~IsRef(v)
    \/ v \in seen
    \/ /\ isTraversable(h, v)
       /\ \A k \in DOMAIN h[AddrOf(v)].props :
              Plain(h, h[AddrOf(v)].props[k], seen \cup {v})
\* the value written was built by the caller: none of its objects is in the
\* store before the write
Fresh(v) == IsRef(v) /\ \A a \in Reach(heap, v) : IsFree(last.pre.heap, a)
\* assign(p, v) of a freshly built mapping or sequence equal to the value at p
StructuralNoOp ==
    /\ SingleAssign /\ step.act = "assign"
    /\ Fresh(LastValue) /\ Get(LastPath) = LastValue
    /\ Plain(heap, LastValue, {})
    /\ SameValue(last.pre.heap, PreGet(LastPath), heap, LastValue, TRUE, {})

\* C5 (as claimed): assigning a freshly built mapping or sequence whose keys
\* and nested contents equal the current value at the path invalidates no
\* subscription, and get() returns data structurally equal to what it returned.
C5_StructuralNoOp ==
    StructuralNoOp =>
        /\ fired = EmptyBag
        /\ SameValue(last.pre.heap, last.pre.data, heap, data, TRUE, {})

\* assign(p, v) was called twice in a row, the first call changing the value at
\* p, with no reactive read in between
AssignedTwice ==
    /\ SingleAssign /\ step.act = "assign"
    /\ last.prev.again /\ last.prev.changed
    /\ LastValue \notin {DELETE, CANCEL}
\* of the two calls only the first invalidated, and a subscriber on p once
OnceInTotal ==
    /\ fired = EmptyBag
    /\ LastPath \in valDeps => CopiesIn(ValDep(LastPath), last.prev.fired) = 1

\* C6 (as claimed): for any value v, assign(p, v) twice in a row notifies a
\* subscriber on p exactly once in total; the second call invalidates nothing.
C6_Idempotence == AssignedTwice => OnceInTotal

\* C6 (amended): the same for every primitive value v but NaN; an object passed
\* again is the reference already stored and is assumed changed, and NaN
\* differs from itself.
C6_IdempotencePrimitive ==
    (AssignedTwice /\ ~IsRef(LastValue) /\ LastValue # NaN) => OnceInTotal
\* a primitive assigned twice at a subscribed path, the first call changing it
C6_Witness ==
    /\ AssignedTwice /\ ~IsRef(LastValue)
    /\ LastPath \in valDeps /\ Len(LastPath) = 2

\* C7: get() right after set(v) returns v itself, whatever the root held.
C7_ReadAfterSet == step.act = "set" => (Get(ROOT) = step.val /\ data = step.val)
\* a shallow-marked value set over a mapping root
C7_Witness ==
    /\ step.act = "set" /\ IsRef(step.val) /\ heap[AddrOf(step.val)].shallow
    /\ isTraversable(last.pre.heap, last.pre.data)

\* the prefix of the written path made of its first n tokens
LastPrefix(n) == SubSeq(LastPath, 1, n)
\* the segment at the first n tokens was traversable before the write: it is
\* still the same object and has kept its keys that are not on the chain
SegmentKept(n) ==
    LET old == PreGet(LastPrefix(n))
        was == last.pre.heap[AddrOf(old)].props
        now == heap[AddrOf(old)].props
    IN /\ Get(LastPrefix(n)) = old
       /\ \A k \in DOMAIN was \ {LastPath[n + 1]} : k \in DOMAIN now /\ now[k] = was[k]
\* the segment was missing or not traversable: it is a new mapping that holds
\* the next token only
SegmentCreated(n) ==
    LET new == Get(LastPrefix(n))
    IN /\ IsRef(new) /\ IsFree(last.pre.heap, AddrOf(new))
       /\ heap[AddrOf(new)].cat = "Object" /\ ~heap[AddrOf(new)].shallow
       /\ DOMAIN heap[AddrOf(new)].props = {LastPath[n + 1]}

\* C8: after assign(p, v) with no mutator on p and v neither DELETE nor CANCEL,
\* get(p) returns v, every segment of p that was missing or not traversable is a
\* new mapping, and the traversable segments keep their other keys.
C8_PathWrite ==
    (SingleAssign /\ step.act = "assign" /\ LastValue \notin {DELETE, CANCEL}) =>
        /\ Get(LastPath) = LastValue
        /\ \A n \in 0..(Len(LastPath) - 1) :
               IF isTraversable(last.pre.heap, PreGet(LastPrefix(n)))
               THEN SegmentKept(n) ELSE SegmentCreated(n)
\* a value written under an index token below a segment that was not there
C8_Witness ==
    /\ SingleAssign /\ step.act = "assign" /\ LastValue \notin {DELETE, CANCEL}
    /\ LastPath = <<"a", "0">>
    /\ isTraversable(last.pre.heap, last.pre.data)
    /\ ~isTraversable(last.pre.heap, PreGet(<<"a">>))

Cancels == ~AtTop /\ step'.act = "return" /\ step'.val = CANCEL
\* the entries of the same call that come after the cancelled one
RestOfCall == Tail(Head(stack).todo)
CancelledPath == Head(Head(stack).todo)[1]
\* neither path is a prefix of the other
Unrelated(p, q) == ~IsPrefix(p, q) /\ ~IsPrefix(q, p)
\* entry i of the rest of the call has been written after the step
RestWritten(i) ==
    LET q == RestOfCall[i][1]
        w == RestOfCall[i][2]
    IN IF w = DELETE THEN FindValue(heap', data', q) = Undefined
       ELSE FindValue(heap', data', q) = w

\* C10: when the mutator of p returns CANCEL, the write of p is aborted.  If p
\* was the last path of the call, the value tree (a non-traversable root
\* included) and the traversable flag are what they were when the mutator
\* returned and no dependency is registered: the pending ones stay pending or
\* are the ones delivered.  Otherwise the remaining paths, which have no
\* mutator, are written, and the value at p stays when they do not touch it.
C10_MutatorCancel ==
    [][Cancels =>
          IF RestOfCall = <<>>
          THEN /\ data' = data /\ trav' = trav
               /\ \A a \in Reach(heap, data) : heap'[a] = heap[a]
               /\ \/ fired' = fired /\ pending' = pending
                  \/ fired' = fired (+) SetToBag(pending) /\ pending' = {}
          ELSE /\ \A i \in 1..Len(RestOfCall) :
                      ~Mutates(RestOfCall[i][1]) => RestWritten(i)
               /\ (\A i \in 1..Len(RestOfCall) : Unrelated(CancelledPath, RestOfCall[i][1]))
                      => FindValue(heap', data', CancelledPath) = Get(CancelledPath)]_vars
\* a cancelled assign on a root that is not traversable: the root stays
C10_Witness ==
    /\ AtTop /\ step.act = "return" /\ step.val = CANCEL
    /\ last.kind = "assign" /\ ~trav /\ ~last.pre.trav
\* a cancelled path followed by another path of the same call, which is written
C10_WitnessRest ==
    /\ AtTop /\ step.act = "return" /\ step.val = CANCEL
    /\ Len(last.entries) = 2 /\ last.entries[1][1] = <<"a">>
    /\ Get(last.entries[2][1]) = last.entries[2][2]

\* the store as the last top-level write found it
PreStore == [data |-> last.pre.data, heap |-> last.pre.heap, trav |-> last.pre.trav,
             active |-> last.pre.active, pending |-> {}, fired |-> EmptyBag,
             observer |-> last.pre.observer]
\* reactive_store.js:232-241  delete(path) from store st, the mutator of the
\* path (if there is one) returning the DELETE it is given
DeleteOf(st, path) ==
    IF st.trav THEN WatchChangesEnd(SetAtPathAfterMutate(st, path, DELETE), 0) ELSE st
\* the store is as in d, the cells no longer referred to reclaimed
SameOutcome(d) ==
    /\ data = d.data /\ trav = d.trav /\ active = d.active /\ fired = d.fired
    /\ heap = Collect(d.heap, Reach(d.heap, d.data))
\* the last top-level write was assign(p, x) of one path that ended as an
\* unset: DELETE was assigned to a path without mutator, or the mutator of the
\* path returned DELETE (without writing to the store itself)
AssignedDelete ==
    /\ AtTop /\ last.kind = "assign" /\ Len(last.entries) = 1 /\ last.nest = 0
    /\ \/ step.act = "assign" /\ LastValue = DELETE
       \/ step.act = "return" /\ step.val = DELETE

\* C11: assign(p, x) whose mutator returns DELETE, and assign(p, DELETE) without
\* a mutator, leave the value tree, the active equality deps and the invalidated
\* subscriptions that delete(p) leaves from the same state: p is removed when
\* it exists, and nothing happens when p does not exist or the root is not
\* traversable.
C11_DeleteEquivalence ==
    AssignedDelete =>
        /\ SameOutcome(DeleteOf(PreStore, LastPath))
        /\ IF PathExists(last.pre.heap, last.pre.data, LastPath)
           THEN ~PathExists(heap, data, LastPath)
           ELSE data = last.pre.data /\ heap = last.pre.heap /\ fired = EmptyBag
\* the mutator of a returned DELETE for a path that existed and had a subscriber
C11_Witness ==
    /\ AssignedDelete /\ step.act = "return"
    /\ PathExists(last.pre.heap, last.pre.data, <<"a">>)
    /\ Invalidated(ValDep(<<"a">>)) /\ Get(<<"a">>) = Undefined
\* DELETE assigned on a root that is not traversable: the root is not coerced
C11_WitnessNoRoot ==
    /\ AssignedDelete /\ step.act = "assign" /\ ~last.pre.trav /\ ~trav

\* the last top-level write was delete(p) of one path
DeletedOne == WriteDone /\ step.act = "delete" /\ Len(last.entries) = 1
ParentPath == SubSeq(LastPath, 1, Len(LastPath) - 1)
LastKey == LastPath[Len(LastPath)]
\* the container cell c has lost key k and nothing else
LostKeyOnly(c, k) ==
    /\ DOMAIN heap[c].props = DOMAIN last.pre.heap[c].props \ {k}
    /\ \A j \in DOMAIN heap[c].props : heap[c].props[j] = last.pre.heap[c].props[j]
    /\ heap[c].cat = last.pre.heap[c].cat

\* C12: delete(p) of a path that exists removes the last key of p from its
\* parent container and nothing else (the siblings stay, and the parent stays
\* in place even when it is left empty), and invalidates once the value
\* subscription on p and on every ancestor of p, the root included.
C12_DeleteExisting ==
    (DeletedOne /\ PathExists(last.pre.heap, last.pre.data, LastPath)) =>
        /\ Get(ParentPath) = PreGet(ParentPath)
        /\ LostKeyOnly(AddrOf(PreGet(ParentPath)), LastKey)
        /\ \A q \in Prefixes(LastPath) \cap valDeps : CopiesIn(ValDep(q), fired) = 1
\* a key deleted next to a sibling, with subscribers on the path and the root
C12_Witness ==
    /\ DeletedOne /\ PathExists(last.pre.heap, last.pre.data, LastPath)
    /\ LastPath = <<"a", "0">> /\ {ROOT, LastPath} \subseteq valDeps
    /\ "a" \in DOMAIN heap[AddrOf(Get(<<"a">>))].props
\* the only key of a container deleted: the container stays, empty
C12_WitnessEmptied ==
    /\ DeletedOne /\ PathExists(last.pre.heap, last.pre.data, LastPath)
    /\ Len(LastPath) = 2 /\ IsRef(Get(ParentPath))
    /\ DOMAIN heap[AddrOf(Get(ParentPath))].props = {}

\* C13: delete(p) of a path that does not exist (its last key absent, or a
\* segment before it missing or not traversable) leaves the value tree as it
\* is, creating and coercing nothing, and invalidates no subscription.
C13_DeleteAbsent ==
    (DeletedOne /\ ~PathExists(last.pre.heap, last.pre.data, LastPath)) =>
        /\ data = last.pre.data /\ heap = last.pre.heap /\ trav = last.pre.trav
        /\ active = last.pre.active
        /\ fired = EmptyBag
\* a path below a segment that is not traversable, the root being subscribed
C13_Witness ==
    /\ DeletedOne /\ ~PathExists(last.pre.heap, last.pre.data, LastPath)
    /\ Len(LastPath) = 2 /\ last.pre.trav
    /\ ~isTraversable(last.pre.heap, PreGet(ParentPath))
    /\ ROOT \in valDeps
\* the last key absent from a container that is there
C13_WitnessLastKey ==
    /\ DeletedOne /\ ~PathExists(last.pre.heap, last.pre.data, LastPath)
    /\ Len(LastPath) = 2 /\ isTraversable(last.pre.heap, PreGet(ParentPath))
    /\ {ROOT, ParentPath} \subseteq valDeps

\* the last top-level write was assign(p, v) or delete(p) of one path
WroteOnePath ==
    WriteDone /\ last.kind \in {"assign", "delete"} /\ Len(last.entries) = 1
\* no subscription on q, value or equality, was invalidated
Silent(q) ==
    /\ ~Invalidated(ValDep(q))
    /\ \A e \in eqDeps : e[1] = q => ~Invalidated(EqDep(q, e[2]))
\* get(q) returns what it returned before the write, keys and contents
SameAt(q) == SameValue(last.pre.heap, PreGet(q), heap, Get(q), TRUE, {})

\* C14 (as claimed): with no mutators, assign(p, v) or delete(p) invalidates
\* no value or equality subscription on a path q unrelated to p (neither a
\* prefix of the other) and does not change the value at q (what get(q)
\* returns cannot be told from what it returned before).
C14_UnrelatedUntouched ==
    WroteOnePath =>
        \A q \in AllPaths : Unrelated(LastPath, q) => (Silent(q) /\ Unchanged(q))

\* C14 (amended): the subscriptions on an unrelated path are never
\* invalidated, and the value at it does not change (down to its keys) when
\* no object of the store sits under two paths.
C14_UnrelatedUntouchedTree ==
    WroteOnePath =>
        \A q \in AllPaths : Unrelated(LastPath, q) =>
            /\ Silent(q)
            /\ TreeShaped(last.pre.heap, last.pre.data) => SameAt(q)
\* a write that changed the value at 0.a next to an equality subscription on
\* a.0, whose value is there
C14_Witness ==
    /\ WroteOnePath /\ LastPath = <<"0", "a">> /\ ~Unchanged(LastPath)
    /\ TreeShaped(last.pre.heap, last.pre.data)
    /\ \E e \in eqDeps : e[1] = <<"a", "0">>
    /\ Get(<<"a", "0">>) # Undefined

\* equals(q, w) before the last top-level write, and whether the write has
\* changed its verdict
PreVerdict(q, w) == StrictEquals(PreGet(q), w)
Flipped(q, w) == PreVerdict(q, w) # EqualsVerdict(q, w)

\* C15 (as claimed): a write invalidates the subscription of a reactive
\* equals(p, v) if and only if the truth of (value at p === v) after the write
\* differs from its truth before it; a change from one value other than v to
\* another value other than v does not invalidate it.
C15_VerdictFlipsOnly ==
    WriteDone =>
        \A e \in eqDeps : Invalidated(EqDep(e[1], e[2])) <=> Flipped(e[1], e[2])

\* the primitives equals is asked about
ComparePrims == {Undefined, Null, Num(1), Num(2), NaN}
\* the last top-level write was assign(p, v) of one path with a primitive v to
\* store
AssignedPrimitive ==
    /\ SingleAssign /\ step.act = "assign"
    /\ ~InstanceOfObject(LastValue) /\ LastValue \notin {DELETE, CANCEL}
\* equals(p, v) is true and equals(p, w) is false for the other primitives w
Duality(p, v) ==
    /\ EqualsVerdict(p, v)
    /\ \A w \in ComparePrims \ {v} : ~EqualsVerdict(p, w)

\* C16 (as claimed): after assign(p, v) with a primitive v, equals(p, v)
\* returns true and equals(p, w) returns false for every primitive w other
\* than v.
C16_EqualityDuality == AssignedPrimitive => Duality(LastPath, LastValue)

\* C16 (amended): the same for every primitive v but NaN, which === takes for
\* different from itself: after assign(p, NaN), equals(p, w) is false for every
\* w, NaN included.
C16_EqualityDualityNoNaN ==
    AssignedPrimitive =>
        IF LastValue = NaN
        THEN \A w \in ComparePrims : ~EqualsVerdict(LastPath, w)
        ELSE Duality(LastPath, LastValue)
\* a number assigned at a nested path that held something else
C16_Witness ==
    /\ AssignedPrimitive /\ LastValue = Num(1) /\ Len(LastPath) = 2
    /\ PreGet(LastPath) # Num(1)
\* NaN assigned
C16_WitnessNaN == AssignedPrimitive /\ LastValue = NaN

\* this step is a call of equals inside a computation
CallsEquals == step'.act \in {"equals", "throw"} /\ nReads' = nReads + 1
\* the call of equals left the store as it was
StoreUntouched ==
    UNCHANGED <<data, heap, trav, nodes, valDeps, eqDeps, active, opCount, pending,
                noMutate, mutators, stack, fired>>

\* C17: equals with a mapping, sequence or other instance as compare value
\* fails with an error and leaves the store untouched: no dependency node, no
\* equality subscription and no active equality dep is created or changed, and
\* the value tree, the pending set and the operation counter stay, although the
\* call is made inside a computation.
C17_StructuralCompareFails ==
    [][(CallsEquals /\ IsRef(step'.val)) => (step'.act = "throw" /\ StoreUntouched)]_vars
\* equals was called with a mapping of the store as compare value, on a path
\* that had no dependency node
C17_Witness ==
    /\ step.act = "throw" /\ isTraversable(heap, step.val)
    /\ step.path \notin nodes

\* C18 (as claimed): equals(p, f) with a function f as compare value is
\* accepted without an error, returns true exactly when the value at p is f,
\* and inside a computation registers an equality subscription for f.
C18_FunctionCompare ==
    (step.act \in {"equals", "throw"} /\ step.val[1] = "function") =>
        /\ step.act = "equals"
        /\ EqualsVerdict(step.path, step.val) <=> (Get(step.path) = step.val)
        /\ <<step.path, step.val>> \in eqDeps

\* the value v contains itself, directly or through the values it holds
Cyclic(h, v) ==
    /\ IsRef(v)
    /\ \E k \in DOMAIN h[AddrOf(v)].props :
           AddrOf(v) \in Reach(h, h[AddrOf(v)].props[k])
\* the last top-level write was set(v) or assign(p, v) of one path with a
\* value to store
WroteValue ==
    /\ WriteDone /\ step.act \in {"set", "assign"} /\ Len(last.entries) = 1
    /\ LastValue \notin {DELETE, CANCEL}
\* the value subscriptions on the written path and on every ancestor of it
\* were invalidated
PathInvalidated == \A q \in Prefixes(LastPath) \cap valDeps : Invalidated(ValDep(q))

\* C19: set or assign of a value that contains itself terminates (the diff is
\* evaluated to its end in every reachable state) and reports changed, whatever
\* the old value: the subscriptions on the written path and on its ancestors
\* are invalidated.
C19_CycleSafety == (WroteValue /\ Cyclic(heap, LastValue)) => PathInvalidated
\* a cyclical value written over another cyclical value of the same shape, the
\* path being subscribed
C19_Witness ==
    /\ WroteValue /\ Cyclic(heap, LastValue)
    /\ Cyclic(last.pre.heap, PreGet(LastPath)) /\ PreGet(LastPath) # LastValue
    /\ SameValue(last.pre.heap, PreGet(LastPath), heap, LastValue, TRUE, {})
    /\ LastPath \in valDeps /\ Len(LastPath) > 0
\* a cyclical value written over itself
C19_WitnessSame ==
    /\ WroteValue /\ Cyclic(heap, LastValue) /\ PreGet(LastPath) = LastValue
    /\ Cyclic(last.pre.heap, LastValue) /\ LastPath \in valDeps

\* C20: when set or assign writes the very mapping, sequence or instance that
\* is stored at the location, the diff reports changed, whatever its contents
\* and the equality checks registered: the value subscriptions at the location
\* and at every ancestor are invalidated.
C20_SameReference ==
    (WroteValue /\ IsRef(LastValue) /\ PreGet(LastPath) = LastValue) => PathInvalidated
\* a Date set over itself at the subscribed root, the Date check registered
C20_Witness ==
    /\ WroteValue /\ step.act = "set" /\ PreGet(ROOT) = LastValue
    /\ IsRef(LastValue) /\ heap[AddrOf(LastValue)].cat = "Date"
    /\ ROOT \in valDeps
\* a mapping assigned over itself below the root, both subscribed
C20_WitnessAssign ==
    /\ WroteValue /\ step.act = "assign" /\ PreGet(LastPath) = LastValue
    /\ isTraversable(heap, LastValue) /\ {ROOT, LastPath} \subseteq valDeps

\* the value v is a mapping or sequence marked by ReactiveStore.shallow
ShallowMarked(h, v) ==
    IsRef(v) /\ h[AddrOf(v)].cat \in {"Object", "Array"} /\ h[AddrOf(v)].shallow
\* the last top-level write was assign(p.k, v) of one path, v a value to store,
\* where p held a shallow-marked value
AssignedBelowShallow ==
    /\ SingleAssign /\ step.act = "assign" /\ LastValue \notin {DELETE, CANCEL}
    /\ PathExists(last.pre.heap, last.pre.data, ParentPath)
    /\ ShallowMarked(last.pre.heap, PreGet(ParentPath))

\* C21: after a shallow-marked mapping m is stored at path p (or as the root),
\* get(p) returns m itself and get(p.k) returns undefined for every key k, the
\* keys of m included; a later assign to p.k replaces m by a new mapping that
\* holds only k.
C21_ShallowOpacity ==
    /\ (WroteValue /\ ShallowMarked(heap, LastValue)) =>
           /\ Get(LastPath) = LastValue
           /\ Len(LastPath) < MaxPathLen =>
                  \A k \in Keys : Get(Append(LastPath, k)) = Undefined
    /\ AssignedBelowShallow =>
           LET new == Get(ParentPath)
           IN /\ IsRef(new) /\ new # PreGet(ParentPath)
              /\ IsFree(last.pre.heap, AddrOf(new))
              /\ heap[AddrOf(new)] = Obj([k \in {LastKey} |-> LastValue])
\* a shallow-marked mapping with key a assigned at path a
C21_Witness ==
    /\ WroteValue /\ ShallowMarked(heap, LastValue) /\ LastPath = <<"a">>
    /\ "a" \in DOMAIN heap[AddrOf(LastValue)].props
\* a key assigned below the shallow-marked mapping stored at path a
C21_WitnessReplaced ==
    /\ AssignedBelowShallow /\ LastPath = <<"a", "a">>
    /\ "a" \in DOMAIN last.pre.heap[AddrOf(PreGet(ParentPath))].props

\* the last top-level write was clear()
Cleared == WriteDone /\ step.act = "clear"
\* the root was a mapping or sequence without keys
WasEmpty ==
    /\ isTraversable(last.pre.heap, last.pre.data)
    /\ DOMAIN last.pre.heap[AddrOf(last.pre.data)].props = {}
\* the value subscription on q was invalidated once
InvalidatedOnce(q) == CopiesIn(ValDep(q), fired) = 1

\* C22: clear() replaces a traversable root by a new empty value of the same
\* category and any other root by undefined; the subscriber on the root and on
\* every path that held a value is invalidated once, and clearing an empty
\* mapping or sequence invalidates nobody.
C22_Clear ==
    Cleared =>
        /\ IF isTraversable(last.pre.heap, last.pre.data)
           THEN /\ IsRef(data) /\ IsFree(last.pre.heap, AddrOf(data))
                /\ heap[AddrOf(data)] =
                       IF last.pre.heap[AddrOf(last.pre.data)].cat = "Array"
                       THEN EmptyArray ELSE EmptyObject
           ELSE data = Undefined
        /\ IF WasEmpty THEN fired = EmptyBag
           ELSE \A q \in valDeps : PreGet(q) # Undefined => InvalidatedOnce(q)

\* a write has stopped inside the mutator of its path
InMutator(i) == stack[i].kind \in {"assign", "delete"}
\* the mutator of frame i was invoked by a write of the operation passed to
\* the noMutation call of frame j
InvokedWithin(i, j) == i < j /\ InMutator(i) /\ stack[j].kind = "noMutation"

\* C23 (as claimed): no assign or delete executed between the start and the end
\* of the operation passed to noMutation invokes a mutator, also after a nested
\* noMutation call has returned and when noMutation is called by a mutator.
C23_NoMutation == \A i, j \in DOMAIN stack : ~InvokedWithin(i, j)

\* the flush of the last top-level write invalidated the observing computation,
\* whose callback wrote to the store
FlushReentered ==
    WriteDone /\ last.pre.observer # NoObserver /\ observer = NoObserver

\* C24 (as claimed): when an observer's callback writes to the store during a
\* flush, the write joins the batch: every subscription invalidated by the
\* flush is invalidated exactly once.
C24_ObserverReentrancy ==
    FlushReentered => \A d \in BagToSet(fired) : CopiesIn(d, fired) = 1

\* the value the last assign went on with: the one its mutator returned, or
\* the one it was given
FinalValue == IF step.act = "return" THEN step.val ELSE LastValue
\* the last top-level write was assign(p, v) of one path on a root that was
\* not traversable, and no other write was made meanwhile
AssignedOnOpaqueRoot ==
    /\ SingleAssign /\ last.nest = 0
    /\ ~isTraversable(last.pre.heap, last.pre.data)

\* C25: assign(p, v) on a root that is not traversable, v being neither DELETE
\* nor CANCEL after mutation, replaces the root by a new mapping that holds
\* only the chain of p with v at its end; with DELETE or CANCEL the root is
\* left as it was.
C25_RootCoercion ==
    AssignedOnOpaqueRoot =>
        IF FinalValue \in {DELETE, CANCEL}
        THEN data = last.pre.data /\ heap = last.pre.heap /\ trav = last.pre.trav
        ELSE /\ trav /\ Get(LastPath) = FinalValue
             /\ \A n \in 0..(Len(LastPath) - 1) : SegmentCreated(n)
\* a two-token path assigned on a root that held a class instance
C25_Witness ==
    /\ AssignedOnOpaqueRoot /\ FinalValue = Num(1) /\ Len(LastPath) = 2
    /\ IsRef(last.pre.data) /\ last.pre.heap[AddrOf(last.pre.data)].cat = "Date"
\* DELETE assigned on a root that held a shallow-marked mapping
C25_WitnessDelete ==
    /\ AssignedOnOpaqueRoot /\ FinalValue = DELETE
    /\ ShallowMarked(last.pre.heap, last.pre.data)

\* the last write put a value at a subscribed location that held a primitive
WroteOverPrimitive ==
    WroteValue /\ ~IsRef(PreGet(LastPath)) /\ LastPath \in valDeps

\* C26: when the old value is a primitive, the diff reports changed exactly
\* when the new value is not identical to it (!==): the subscription at the
\* location is invalidated once then and not otherwise, and get() returns the
\* new value; undefined to null is a change.
C26_PrimitiveDiff ==
    WroteOverPrimitive =>
        /\ CopiesIn(ValDep(LastPath), fired) =
               IF PreGet(LastPath) = LastValue /\ LastValue # NaN THEN 0 ELSE 1
        /\ Get(LastPath) = LastValue
\* set(null) on a subscribed root that held undefined
C26_Witness ==
    /\ WroteOverPrimitive /\ step.act = "set"
    /\ PreGet(ROOT) = Undefined /\ LastValue = Null
    /\ InvalidatedOnce(ROOT) /\ Get(ROOT) = Null
\* set(undefined) on a subscribed root that held undefined
C26_WitnessSame ==
    /\ WroteOverPrimitive /\ step.act = "set"
    /\ PreGet(ROOT) = Undefined /\ LastValue = Undefined /\ fired = EmptyBag

\* the last write put another value at a subscribed location that held a class
\* instance or a shallow-marked value
WroteOverOpaque ==
    /\ WroteValue /\ LastPath \in valDeps
    /\ IsRef(PreGet(LastPath)) /\ PreGet(LastPath) # LastValue
    /\ ~isTraversable(last.pre.heap, PreGet(LastPath))
\* the constructor of the old value, and the check registered for it
OldCtor == last.pre.heap[AddrOf(PreGet(LastPath))].cat
\* the check registered for the old value's constructor returns true for the
\* old and the new value
CheckedEqual ==
    \/ eqCheckMap[OldCtor] = AnyCheck
    \/ /\ eqCheckMap[OldCtor] = DateCheck
       /\ IsRef(LastValue) /\ heap[AddrOf(LastValue)].cat = "Date"
       /\ heap[AddrOf(LastValue)].time = last.pre.heap[AddrOf(PreGet(LastPath))].time

\* C27: when the old value is a class instance or shallow-marked and the new
\* value another reference or a primitive, the diff reports changed unless a
\* check is registered for the old value's constructor and returns true for
\* (old, new); the checks in force are those registered when the write is made.
C27_OpaqueDiff ==
    WroteOverOpaque =>
        CopiesIn(ValDep(LastPath), fired) = IF CheckedEqual THEN 0 ELSE 1
\* a Date written over a Date of the same time after the Date check was removed
C27_Witness ==
    /\ WroteOverOpaque /\ OldCtor = "Date" /\ eqCheckMap["Date"] = NoCheck
    /\ IsRef(LastValue) /\ heap[AddrOf(LastValue)].cat = "Date"
    /\ heap[AddrOf(LastValue)].time = last.pre.heap[AddrOf(PreGet(LastPath))].time
    /\ InvalidatedOnce(LastPath)
\* a shallow-marked mapping written over another after a check for Object was
\* added
C27_WitnessAdded ==
    /\ WroteOverOpaque /\ OldCtor = "Object" /\ eqCheckMap["Object"] = AnyCheck
    /\ ShallowMarked(heap, LastValue) /\ fired = EmptyBag
\* a Date written over a shallow-marked mapping, no check for Object
C27_WitnessNoCheck ==
    /\ WroteOverOpaque /\ OldCtor = "Object" /\ eqCheckMap["Object"] = NoCheck
    /\ eqCheckMap["Date"] = DateCheck
    /\ IsRef(LastValue) /\ heap[AddrOf(LastValue)].cat = "Date"
    /\ InvalidatedOnce(LastPath)

\* the last write put a traversable value where a value that is not
\* traversable was
WroteOverLeaf ==
    /\ WroteValue /\ isTraversable(heap, LastValue)
    /\ ~isTraversable(last.pre.heap, PreGet(LastPath))
\* the dependency node q lies below the written location, on a path that is
\* present in the new value
NodeBelow(q) ==
    /\ q \in nodes /\ q # LastPath /\ IsPrefix(LastPath, q)
    /\ PathExists(heap, data, q)
\* the active equality entry of node q is the one of the value now at q
Refreshed(q) == active[q] = EqDepMapGet(q, Get(q))

\* C28: when the value at a location changes from something not traversable
\* to a traversable value, every dependency node below the location whose
\* path is present in the new value has its value subscription invalidated and
\* its active equality entry refreshed against the new sub-value.
C28_SweepBelow ==
    WroteOverLeaf =>
        \A q \in AllPaths :
            NodeBelow(q) => /\ q \in valDeps => Invalidated(ValDep(q))
                            /\ Refreshed(q)

\* the last write put a mapping or sequence new where another one, old, of the
\* same constructor was; the two agree on their keys and contents but for keys
\* that hold undefined, and new has such a key that old has not (no object of
\* either being referred to twice)
AddedUndefinedKeys ==
    /\ WroteValue /\ PreGet(LastPath) # LastValue
    /\ isTraversable(last.pre.heap, PreGet(LastPath)) /\ isTraversable(heap, LastValue)
    /\ TreeShaped(last.pre.heap, PreGet(LastPath)) /\ TreeShaped(heap, LastValue)
    /\ SameValue(last.pre.heap, PreGet(LastPath), heap, LastValue, FALSE, {})
    /\ DOMAIN heap[AddrOf(LastValue)].props
           \ DOMAIN last.pre.heap[AddrOf(PreGet(LastPath))].props # {}
\* old and new have as many keys
SameKeyCount ==
    Cardinality(DOMAIN heap[AddrOf(LastValue)].props) =
        Cardinality(DOMAIN last.pre.heap[AddrOf(PreGet(LastPath))].props)

\* C29 (as claimed): a key that newly appears holding undefined is no change:
\* when the new mapping differs from the old one of the same constructor only
\* by keys that hold undefined, nobody is invalidated, whether or not the
\* number of keys differs.
C29_UndefinedKeyAdded == AddedUndefinedKeys => fired = EmptyBag

\* the last top-level write was delete(p) of one path that existed
DeletedExisting ==
    DeletedOne /\ PathExists(last.pre.heap, last.pre.data, LastPath)
\* the value subscription of node q was invalidated and its active equality
\* entry is the one for undefined
NotifiedOfUnset(q) ==
    /\ q \in valDeps => Invalidated(ValDep(q))
    /\ active[q] = EqDepMapGet(q, Undefined)

\* C30 (as claimed): delete(p) of an existing path invalidates the value
\* subscription of every dependency node at or below p, at any depth and whether
\* or not its key was present in the removed value, and resets its active
\* equality entry to the entry for undefined.
C30_DeleteSubtree ==
    DeletedExisting =>
        \A q \in AllPaths : (q \in nodes /\ IsPrefix(LastPath, q)) => NotifiedOfUnset(q)

\* ------------------------------------------------------------------ C31
\* C31: in every state the program can be in (after the constructor, after and
\* during every set, assign, delete and clear, a mutator's own set included)
\* this._isTraversable is true exactly when the root is an Object or an Array
\* that is not marked shallow.
C31_TraversableFlag == trav <=> isTraversable(heap, data)
\* a mutator has just replaced a traversable root by calling set(null)
C31_Witness ==
    /\ ~AtTop /\ step.act = "set" /\ last.pre.trav /\ ~trav /\ data = Null
\* the write whose mutator replaced the traversable root has returned, the
\* root coerced to a new Object by the rest of the write
C31_WitnessCoerced ==
    /\ AtTop /\ step.act = "return" /\ last.nest = 1
    /\ last.pre.trav /\ trav /\ data # last.pre.data

\* ------------------------------------------------------------------ C32
\* the equality dep the node of p would have as its active one: the entry of
\* its eqDepMap for the value now stored at p, if there is one
EntryOfCurrent(p) == EqDepMapGet(p, Get(p))
\* C32: whenever no write is in progress, the activeEqDep of every dep node
\* that has an eqDepMap is the map's entry for the value currently stored at
\* the node's path, and there is no activeEqDep when the map has no such entry.
C32_ActiveEntry ==
    AtTop => \A p \in nodes : HasEqDepMap(p) => active[p] = EntryOfCurrent(p)

\* ------------------------------------------------------------------ C33
ReadActs == {"get", "observe", "equals"}
\* C33: dep nodes, deps and equality deps are only ever added; a write (set,
\* assign, delete, clear, a mutator's return) adds none; and a reactive read
\* of a path that has a dep node creates no node: it reaches the one there is.
C33_GrowOnly ==
    [][/\ nodes \subseteq nodes' /\ valDeps \subseteq valDeps'
       /\ eqDeps \subseteq eqDeps'
       /\ step'.act \in WriteActs =>
              nodes' = nodes /\ valDeps' = valDeps /\ eqDeps' = eqDeps
       /\ (step'.act \in ReadActs /\ step'.path \in nodes) => nodes' = nodes]_vars
\* a delete has removed the value at a path whose node has an equality dep:
\* the node and the dep are still there
C33_Witness ==
    /\ AtTop /\ step.act = "delete"
    /\ \E p \in nodes : /\ p # ROOT /\ HasEqDepMap(p)
                        /\ PreGet(p) # Undefined /\ Get(p) = Undefined
\* a path has been read a second time
C33_WitnessReadAgain ==
    /\ step.act = "get" /\ nReads = 2 /\ eqDeps = {} /\ Cardinality(valDeps) = 1

\* ------------------------------------------------------------------ C34
\* the entries of todo from the first one whose path has a mutator in the
\* table, the flag being unset: the mutator is called with that entry
FirstMutated(todo) ==
    LET I == {i \in DOMAIN todo : todo[i][1] \in mutators}
    IN IF noMutate \/ I = {} THEN 0 ELSE CHOOSE i \in I : \A j \in I : i <= j
Dispatched(todo) ==
    IF FirstMutated(todo) = 0 THEN <<>>
    ELSE SubSeq(todo, FirstMutated(todo), Len(todo))
\* the calls in progress once the write has reached the mutator of an entry
Invoking(kind, todo, stk) ==
    IF Dispatched(todo) = <<>> THEN stk
    ELSE <<[kind |-> kind, todo |-> Dispatched(todo)]>> \o stk
\* a write made by a running mutator or callback calls no mutator, or the
\* mutator of the exact path of one of its entries
NestedDispatch ==
    \/ stack' = stack
    \/ /\ Tail(stack') = stack /\ Head(stack').kind = step'.act /\ ~noMutate
       /\ Head(Head(stack').todo)[1] \in mutators
\* what holds of every kind of step but a delete by the program
DispatchRules ==
    /\ (AtTop /\ step'.act = "assign") =>
           stack' = Invoking("assign", last'.entries, stack)
    /\ (~AtTop /\ step'.act \in {"assign", "delete"}) => NestedDispatch
    /\ step'.act = "return" =>
           stack' = Invoking(Head(stack).kind, Tail(Head(stack).todo), Tail(stack))
    /\ step'.act \in {"set", "clear", "updateMutators", "removeMutators"} =>
           stack' = stack
\* C34 (as stated): every assign and every delete calls, for its entries in
\* turn, the mutator that the table holds for exactly the entry's path when
\* the entry is reached with the flag unset, with the entry's value (DELETE
\* for a delete), once; entries of other paths, set, clear, updateMutators and
\* removeMutators call none and leave the running calls as they are.
C34_Dispatch ==
    [][/\ DispatchRules
       /\ (AtTop /\ step'.act = "delete") =>
              stack' = Invoking("delete", last'.entries, stack)]_vars
\* C34 (amended): the same, for a delete only when the root is traversable; a
\* delete on a root that is not traversable calls no mutator.
C34_DispatchTraversable ==
    [][/\ DispatchRules
       /\ (AtTop /\ step'.act = "delete") =>
              stack' = IF trav THEN Invoking("delete", last'.entries, stack)
                       ELSE stack]_vars
\* a delete has called the mutator of its path with DELETE
C34_Witness ==
    /\ ~AtTop /\ step.act = "delete" /\ Head(stack).kind = "delete"
    /\ Head(Head(stack).todo) = <<step.path, DELETE>> /\ step.path \in mutators
\* the mutator of an entry has returned and the write has called the mutator
\* of a later entry
C34_WitnessNext ==
    /\ ~AtTop /\ step.act = "return" /\ Head(stack).kind \in {"assign", "delete"}
    /\ Head(Head(stack).todo)[1] \in mutators
\* an entry whose mutator was removed has been written without a call
C34_WitnessRemoved ==
    /\ AtTop /\ step.act = "assign" /\ last.entries[1][1] = <<"a">>
    /\ <<"a">> \notin mutators /\ ~noMutate
\* a delete of a path that has a mutator, on a root that is not traversable
C34_WitnessNoRoot ==
    /\ AtTop /\ step.act = "delete" /\ ~last.pre.trav /\ ~noMutate
    /\ last.entries[1][1] \in mutators

\* ------------------------------------------------------------------ C35
\* the last top-level write was delete(p) of one path whose mutator (which
\* wrote nothing itself) returned a value that is neither DELETE nor CANCEL
DeleteTurnedWrite ==
    /\ AtTop /\ last.kind = "delete" /\ Len(last.entries) = 1 /\ last.nest = 0
    /\ step.act = "return" /\ step.val \notin {DELETE, CANCEL}
\* reactive_store.js:214-226  assign(path, value) from store st, the path
\* having no mutator
AssignOf(st, path, value) == WatchChangesEnd(SetAtPathAfterMutate(st, path, value), 0)
\* C35: when the mutator that delete(p) calls returns a value v other than
\* DELETE and CANCEL, the store, the active equality deps and the invalidated
\* subscriptions are those that assign(p, v) without mutator leaves from the
\* same state: v is at p, the segments that led nowhere created, also when
\* p did not exist.
C35_DeleteTurnedWrite ==
    DeleteTurnedWrite =>
        /\ SameOutcome(AssignOf(PreStore, LastPath, step.val))
        /\ PathExists(heap, data, LastPath) /\ Get(LastPath) = step.val
\* the mutator of a.0 returned 1 to a delete when the store had no a
C35_Witness ==
    /\ DeleteTurnedWrite /\ LastPath = <<"a", "0">> /\ Invalidated(ValDep(<<"a">>))
    /\ ~PathExists(last.pre.heap, last.pre.data, <<"a">>)
    /\ Get(<<"a", "0">>) = Num(1)

\* ------------------------------------------------------------------ C36
PlainReadActs == {"getPlain", "equalsPlain"}
\* C36: a get or an equals, the refused equals included, leaves the value
\* tree, this._isTraversable, the pending deps and the operation counter as
\* they are; outside a computation it creates no dep node, no dep and no
\* equality dep either; inside a computation get(p) creates the dep nodes of
\* the prefixes of p and a dep on the node of p alone.
C36_ReadsPure ==
    [][/\ step'.act \in ReadActs \cup PlainReadActs \cup {"throw"} =>
              UNCHANGED <<data, heap, trav, pending, opCount>>
       /\ step'.act \in PlainReadActs \cup {"throw"} =>
              UNCHANGED <<nodes, valDeps, eqDeps, active>>
       /\ step'.act = "get" =>
              /\ nodes' = nodes \cup Prefixes(step'.path)
              /\ valDeps' = valDeps \cup {step'.path}
              /\ eqDeps' = eqDeps]_vars
\* a computation has read a.0 of a store nothing had read: three nodes, one dep
C36_Witness ==
    /\ step.act = "get" /\ step.path = <<"a", "0">>
    /\ nodes = Prefixes(<<"a", "0">>) /\ valDeps = {<<"a", "0">>}
\* the running mutator has read the store, a dep pending, outside a computation
C36_WitnessPlain ==
    /\ ~AtTop /\ step.act \in PlainReadActs /\ pending # {} /\ opCount > 0

\* ------------------------------------------------------------------ C37
\* C37: whenever no operation of the store is executing (the last write has
\* returned, or has ended with the error its mutator threw) the operation
\* counter is zero and no dep is pending.
C37_Quiescence == AtTop => opCount = 0 /\ pending = {}

\* ------------------------------------------------------------------ C38
\* the last top-level write was assign(p, v) of one path, q is the root or a
\* segment of p above its last, and the value that was at q (a primitive, an
\* instance without traversal or a shallow value) could not be traversed: the
\* assign has put a new Object in its place
CoercedAt(q) ==
    /\ SingleAssign /\ LastValue \notin {DELETE, CANCEL}
    /\ q # LastPath /\ IsPrefix(q, LastPath)
    /\ PreGet(q) # Undefined /\ ~isTraversable(last.pre.heap, PreGet(q))
\* C38: an assign that replaces a value that is not traversable, at the root
\* or at a segment above the last of its path, by a new Object invalidates the
\* dep of that node, and invalidates and deactivates its active equality dep,
\* whatever the value assigned.
C38_CoercionNotified ==
    \A q \in nodes : CoercedAt(q) =>
        /\ q \in last.pre.valDeps => Invalidated(ValDep(q))
        /\ last.pre.active[q] # NoDep =>
               /\ Invalidated(EqDep(q, last.pre.active[q]))
               /\ active[q] = NoDep

\* ------------------------------------------------------------------ C39
\* no object reachable from v contains itself
Acyclic(h, v) == \A a \in Reach(h, v) : ~Cyclic(h, Ref(a))
\* the last top-level write was set(v) or assign(p, v) of a newly built,
\* acyclic mapping or sequence over an acyclic value with the same keys and
\* the same contents, key by key
WroteEqualAcyclic ==
    /\ WroteValue /\ Fresh(LastValue) /\ Plain(heap, LastValue, {})
    /\ IsRef(PreGet(LastPath))
    /\ Acyclic(heap, LastValue) /\ Acyclic(last.pre.heap, PreGet(LastPath))
    /\ SameValue(last.pre.heap, PreGet(LastPath), heap, LastValue, TRUE, {})
\* C39: the diff of two acyclic values that are distinct objects with equal
\* contents reports unchanged, also when an object is found under two keys
\* of one of them: the write invalidates nothing.
C39_SharedNotCyclic == WroteEqualAcyclic => fired = EmptyBag

\* ------------------------------------------------------------------ C40
\* the last top-level write was assign({p: v, q: w}) with no mutator in the
\* table, neither of p and q a prefix of the other
PairAssigned ==
    /\ WriteDone /\ last.kind = "assign" /\ Len(last.entries) = 2 /\ mutators = {}
    /\ ~IsPrefix(last.entries[1][1], last.entries[2][1])
    /\ ~IsPrefix(last.entries[2][1], last.entries[1][1])
\* the objects the caller built for the values of the call
ValueCells ==
    {a \in Reach(heap, last.entries[1][2]) \cup Reach(heap, last.entries[2][2]) :
        IsFree(last.pre.heap, a)}
\* the store before the call, the values of the call built
PreWithValues ==
    [PreStore EXCEPT !.heap = [a \in Addr |-> IF a \in ValueCells THEN heap[a]
                                              ELSE last.pre.heap[a]]]
\* one call that processes e1 and then e2
InOrder(st, e1, e2) ==
    Flush(SetAtPathAfterMutate(SetAtPathAfterMutate(st, e1[1], e1[2]), e2[1], e2[2]))
\* two calls of one path each, what they invalidate taken together
Separately(st, e1, e2) == AssignOf(AssignOf(st, e1[1], e1[2]), e2[1], e2[2])
\* the value tree and the set of invalidated subscriptions are those of d
SameTreeAndSubs(d) ==
    /\ SameValue(heap, data, d.heap, d.data, TRUE, {})
    /\ BagToSet(fired) = BagToSet(d.fired)
\* C40 (as stated): assign({p: v, q: w}), p and q not prefixes of each
\* other and no mutator registered, leaves the value tree and the set of
\* invalidated subscriptions that it leaves when q is processed before p, and
\* that assign(p, v) and assign(q, w) leave together, in either order.
C40_OrderIndependence ==
    PairAssigned =>
        /\ SameTreeAndSubs(InOrder(PreWithValues, last.entries[2], last.entries[1]))
        /\ SameTreeAndSubs(Separately(PreWithValues, last.entries[1], last.entries[2]))
        /\ SameTreeAndSubs(Separately(PreWithValues, last.entries[2], last.entries[1]))
\* no object is under two paths: none in the store before the call, and the
\* values of the call are primitives or objects built for it
NothingShared ==
    /\ TreeShaped(last.pre.heap, last.pre.data)
    /\ \A i \in 1..2 : ~IsRef(last.entries[i][2]) \/ Fresh(last.entries[i][2])
\* C40 (amended): the same, when no object is reachable under two paths.
C40_OrderIndependenceTree ==
    (PairAssigned /\ NothingShared) =>
        /\ SameTreeAndSubs(InOrder(PreWithValues, last.entries[2], last.entries[1]))
        /\ SameTreeAndSubs(Separately(PreWithValues, last.entries[1], last.entries[2]))
        /\ SameTreeAndSubs(Separately(PreWithValues, last.entries[2], last.entries[1]))
\* two paths below a were assigned on a root that was not traversable, a
\* subscription invalidated
C40_Witness ==
    /\ PairAssigned /\ NothingShared /\ ~last.pre.trav /\ fired # EmptyBag
    /\ Get(<<"a", "0">>) = Num(2) /\ Get(<<"a", "a">>) = Num(2)
\* an object built for the call was assigned next to a path of another branch
C40_WitnessObject ==
    /\ PairAssigned /\ NothingShared /\ Fresh(last.entries[1][2])
    /\ Invalidated(ValDep(<<"0">>)) /\ Invalidated(ValDep(<<"a", "a">>))

====
